---- MODULE Spec2Model ----
(***************************************************************************)
(* Model of the enduro2d virtual file system (sources/enduro2d/core/vfs.cpp):*)
(* the scheme registry (schemes, aliases, one mutex), the alias resolver    *)
(* resolve_url, the dispatcher with_file_source, the four mutators, the     *)
(* facade operations exists/open/load/write/load_async and                  *)
(* resolve_scheme_aliases.                                                  *)
(*                                                                         *)
(* Scheme names are modelled as naturals, paths as sequences of segments.   *)
(* The specifications share the variables:                                  *)
(*   Spec        caller threads working on a small registry;                *)
(*   SpecChain   one resolve_scheme_aliases call, one resolve_url           *)
(*               invocation per step, on registries with long alias chains; *)
(*   SpecLock    callers blocked on the mutex, with the scheduler's         *)
(*               fairness;                                                  *)
(*   SpecLin     register_scheme / unregister_scheme / exists, one          *)
(*               container access per step, and the sources' lifetimes;     *)
(*   SpecAsync   load_async, the worker's queue and the futures;            *)
(*   SpecArchive one archive_file_source and its archive_streams;           *)
(*   SpecSource  the same source built from any input;                      *)
(*   SpecFs      the facade over a filesystem source and an archive source; *)
(*   SpecReaders two readers of one archive's backing stream;               *)
(*   SpecSnapshot load_async while schemes and aliases change;              *)
(*   SpecUse     calls on a source against unregister_scheme;               *)
(*   SpecExtend  an alias registered at the end of a chain, then resolved.  *)
(***************************************************************************)
EXTENDS Integers, Sequences, FiniteSets, TLC

VARIABLES
    aliases,    \* vfs::state::aliases : scheme name -> url
    schemes,    \* vfs::state::schemes : scheme name -> file source
    mutex,      \* vfs::state::mutex   : the thread holding it, or NoThread
    pc,         \* per caller thread: where it is inside its current call
    call,       \* per caller thread: the operation and its arguments
    ret,        \* per caller thread: the outcome of the current call so far
    queue,      \* vfs::state::worker : submitted, not yet started tasks (FIFO)
    running,    \* the task the single worker thread executes, or NoTask
    c_cfg,      \* SpecChain: the alias chain the registry was built with
    c_in,       \* SpecChain: the url passed to resolve_scheme_aliases
    c_url,      \* SpecChain: argument `url` of the current resolve_url invocation
    c_level,    \* SpecChain: argument `level` (u8) of the current invocation
    c_pc,       \* SpecChain: idle, running, returning, throwing, returned, thrown
    c_lookups,  \* SpecChain: number of aliases.find calls made so far
    hist,       \* SpecLin: the calls that took effect, in the order they did
    passed,     \* SpecLin: the source objects handed to register_scheme so far
    destroyed,  \* SpecLin: per source object, how often it was destroyed
    futures,    \* SpecAsync: per submitted task, in submission order, its state
    a_src,      \* SpecArchive: the archive_file_source object, alive or destroyed
    a_refs,     \* SpecArchive: use counts of state::archive and state::stream
    a_freed,    \* SpecArchive: how often each of the two was released
    a_streams,  \* SpecArchive: the archive_stream objects opened so far
    a_ret,      \* SpecArchive: the outcome of the last call
    a_archive,  \* SpecArchive: the stream the source was built from, and state::archive
    a_cursor,   \* SpecArchive: the read position of the backing input stream
    f_files,    \* SpecFs: the files of the file system, by path
    f_out,      \* SpecFs: the output stream write returned last
    f_ret,      \* SpecFs: the outcome of the last call
    r_pc,       \* SpecReaders: per reader, where it is in its reading
    r_req,      \* SpecReaders: per reader, the archive_reader_ call it makes
    r_out       \* SpecReaders: per reader, the bytes it was handed so far

regVars   == <<aliases, schemes, mutex>>
callVars  == <<pc, call, ret>>
asyncVars == <<queue, running>>
chainVars == <<c_cfg, c_in, c_url, c_level, c_pc, c_lookups>>
linVars   == <<hist, passed, destroyed>>
arVars    == <<a_src, a_refs, a_freed, a_streams, a_ret, a_archive, a_cursor>>
fsVars    == <<f_files, f_out, f_ret>>
rdVars    == <<r_pc, r_req, r_out>>
\* the variables of the other specifications, as seen from Spec and SpecChain
extVars   == <<linVars, futures, arVars, fsVars, rdVars>>
offVars   == <<chainVars, extVars>>
\* the variables SpecLin leaves alone, besides the registry's and the callers'
linOff    == <<asyncVars, chainVars, futures, arVars, fsVars, rdVars>>
\* the variables SpecAsync leaves alone, besides the registry's and the callers'
futOff    == <<chainVars, linVars, arVars, fsVars, rdVars>>
\* the variables SpecArchive leaves alone (state::archive is set by the
\* constructor and never assigned again), and with the backing stream's position
arOff     == <<regVars, callVars, asyncVars, chainVars, linVars, futures, a_archive,
               fsVars, rdVars>>
arRest    == <<arOff, a_cursor>>
\* the variables SpecFs leaves alone, but for the backing stream's position
fsOff     == <<regVars, callVars, asyncVars, chainVars, linVars, futures,
               a_src, a_refs, a_freed, a_streams, a_ret, a_archive, rdVars>>
\* the variables SpecReaders leaves alone, but for the mutex and the backing
\* stream's position
rdOff     == <<aliases, schemes, callVars, asyncVars, chainVars, linVars, futures,
               a_src, a_refs, a_freed, a_streams, a_ret, a_archive, fsVars>>
vars == <<aliases, schemes, mutex, pc, call, ret, queue, running,
          c_cfg, c_in, c_url, c_level, c_pc, c_lookups,
          hist, passed, destroyed, futures,
          a_src, a_refs, a_freed, a_streams, a_ret, a_archive, a_cursor,
          f_files, f_out, f_ret, r_pc, r_req, r_out>>

----------------------------------------------------------------------------
(* Bounds of the model *)

\* longest alias chain SpecChain builds (hops)
MaxChain == 34
\* most load_async tasks alive at a time (being submitted, queued or running)
MaxTasks == 1

(* Program constants *)

\* `if ( level > 32 )`
MaxLevel == 32
\* `u8 level`: the depth counter is an 8-bit unsigned integer
U8Range == 256

----------------------------------------------------------------------------
(* Values *)

Threads     == {"t1", "t2"}
NoThread    == "none"
SchemeNames == 0 .. 1
NoName      == 0 - 1

Segments    == {"base", "sub", "file.txt"}
EmptyPath   == << >>
FilePath    == <<"sub", "file.txt">>

MakeUrl(scheme, path) == [scheme |-> scheme, path |-> path]
NoUrl == MakeUrl(NoName, EmptyPath)

\* urls callers pass to the facade
RequestUrls == {MakeUrl(s, FilePath) : s \in SchemeNames}
\* urls callers register as alias targets
AliasTargets == {MakeUrl(s, <<"base">>) : s \in SchemeNames}
                    \cup {MakeUrl(1, EmptyPath)}

\* file_source_uptr values: the null pointer, or an owned source object.
\* "fs1" is a filesystem_file_source, "ar1" an archive_file_source whose archive
\* opened, "ar_bad" an archive_file_source whose archive failed to open.
NullSource    == "null"
SourceObjects == {"fs1", "ar1", "ar_bad"}

\* the filesystem source and the two archive sources
SourceKind(source) == IF source = "fs1" THEN "filesystem" ELSE "archive"
\* archive_file_source::state::archive is non-null (open_archive_ succeeded)
ArchiveOpened(source) == source = "ar1"

EmptyMap == [x \in {} |-> NoUrl]

Ops == {"register_scheme", "unregister_scheme", "register_scheme_alias",
        "unregister_scheme_alias", "exists", "open", "load", "write",
        "load_async", "resolve_scheme_aliases"}
FacadeOps == {"exists", "open", "load", "write", "load_async"}

MakeCall(op, name, source, url) ==
    [op |-> op, name |-> name, source |-> source, url |-> url]
NoCall == MakeCall("none", NoName, NullSource, NoUrl)

\* the outcome of a call: nothing yet, a thrown bad_vfs_operation, a source
\* method being executed, or a returned value
\* (source, path: the source a method runs or ran on and the path handed to it;
\* url: the url resolve_scheme_aliases returns)
MakeRet(kind, val, source, path, url) ==
    [kind |-> kind, val |-> val, source |-> source, path |-> path, url |-> url]
NoRet       == MakeRet("none", "none", NullSource, EmptyPath, NoUrl)
Thrown      == MakeRet("throw", "bad_vfs_operation", NullSource, EmptyPath, NoUrl)
Returned(v) == MakeRet("value", v, NullSource, EmptyPath, NoUrl)

NoTask == MakeRet("none", "no_task", NullSource, EmptyPath, NoUrl)

----------------------------------------------------------------------------
(* url, hash_map *)

\* path join of the alias target's path with the remaining path
path_combine(lhs, rhs) == lhs \o rhs

\* url operator/ (url, path): same scheme, joined path
url_join(u, path) == MakeUrl(u.scheme, path_combine(u.path, path))

\* hash_map::insert: inserts only when the key is absent; .second tells
MapInsert(m, k, v) ==
    IF k \in DOMAIN m
        THEN [map |-> m, second |-> FALSE]
        ELSE [map |-> [x \in DOMAIN m \cup {k} |-> IF x = k THEN v ELSE m[x]],
              second |-> TRUE]

\* hash_map::erase(key): removes the entry, returns the number removed
MapErase(m, k) ==
    [map |-> [x \in DOMAIN m \ {k} |-> m[x]],
     count |-> IF k \in DOMAIN m THEN 1 ELSE 0]

----------------------------------------------------------------------------
(* file sources *)

\* archive_file_source::valid / filesystem_file_source::valid
valid(source) ==
    IF SourceKind(source) = "filesystem" THEN TRUE ELSE ArchiveOpened(source)

----------------------------------------------------------------------------
(* vfs::state *)

\* resolve_url with the depth check one too strict: `level >= 32`
resolve_url_body_strict(al, url, level) ==
    IF level >= MaxLevel
        THEN [kind |-> "throw", url |-> NoUrl, level |-> level]
    ELSE IF url.scheme \in DOMAIN al
        THEN [kind |-> "recurse",
              url |-> url_join(al[url.scheme], url.path),
              level |-> (level + 1) % U8Range]
        ELSE [kind |-> "return", url |-> url, level |-> level]

\* resolve_url with the depth check one too lax: `level > 33`
resolve_url_body_lax(al, url, level) ==
    IF level > MaxLevel + 1
        THEN [kind |-> "throw", url |-> NoUrl, level |-> level]
    ELSE IF url.scheme \in DOMAIN al
        THEN [kind |-> "recurse",
              url |-> url_join(al[url.scheme], url.path),
              level |-> (level + 1) % U8Range]
        ELSE [kind |-> "return", url |-> url, level |-> level]

\* resolve_url that follows one alias and returns without recursing
resolve_url_body_one_hop(al, url, level) ==
    IF level > MaxLevel
        THEN [kind |-> "throw", url |-> NoUrl, level |-> level]
    ELSE IF url.scheme \in DOMAIN al
        THEN [kind |-> "return",
              url |-> url_join(al[url.scheme], url.path),
              level |-> level]
        ELSE [kind |-> "return", url |-> url, level |-> level]

\* resolve_url joining the wrong way round: url.path() / alias
resolve_url_body_swapped(al, url, level) ==
    IF level > MaxLevel
        THEN [kind |-> "throw", url |-> NoUrl, level |-> level]
    ELSE IF url.scheme \in DOMAIN al
        THEN [kind |-> "recurse",
              url |-> MakeUrl(al[url.scheme].scheme,
                              path_combine(url.path, al[url.scheme].path)),
              level |-> (level + 1) % U8Range]
        ELSE [kind |-> "return", url |-> url, level |-> level]

\* resolve_url passing its own level on to the recursive call
resolve_url_body_same_level(al, url, level) ==
    IF level > MaxLevel
        THEN [kind |-> "throw", url |-> NoUrl, level |-> level]
    ELSE IF url.scheme \in DOMAIN al
        THEN [kind |-> "recurse",
              url |-> url_join(al[url.scheme], url.path),
              level |-> level]
        ELSE [kind |-> "return", url |-> url, level |-> level]

\* resolve_url without the depth check
resolve_url_body_no_check(al, url, level) ==
    IF url.scheme \in DOMAIN al
        THEN [kind |-> "recurse",
              url |-> url_join(al[url.scheme], url.path),
              level |-> (level + 1) % U8Range]
        ELSE [kind |-> "return", url |-> url, level |-> level]

\* One invocation of resolve_url(url, level): throw, return url, or the
\* recursive call's arguments (level + 1 converted back to u8).
resolve_url_body(al, url, level) ==
    IF level > MaxLevel
        THEN [kind |-> "throw", url |-> NoUrl, level |-> level]
    ELSE IF url.scheme \in DOMAIN al
        THEN [kind |-> "recurse",
              url |-> url_join(al[url.scheme], url.path),
              level |-> (level + 1) % U8Range]
        ELSE [kind |-> "return", url |-> url, level |-> level]

RECURSIVE resolve_url(_, _, _)
resolve_url(al, url, level) ==
    \* b is the outcome of this call's body, computed once per call
    CHOOSE r \in {IF b.kind = "recurse" THEN resolve_url(al, b.url, b.level) ELSE b :
                    b \in {resolve_url_body(al, url, level)}} : TRUE

\* the fallback_result each facade operation passes to with_file_source
fallback_result(op) ==
    CASE op = "exists"     -> "false"
      [] op = "open"       -> "empty_stream"
      [] op = "load_async" -> "empty_stream"
      [] op = "load"       -> "empty_buffer_false"
      [] op = "write"      -> "empty_stream"

\* with_file_source throwing when the resolved scheme has no source
with_file_source_missing_throws(al, sch, op, url) ==
    LET resolved == resolve_url(al, url, 0)
    IN  IF resolved.kind = "throw" THEN Thrown
        ELSE IF resolved.url.scheme \in DOMAIN sch
                /\ sch[resolved.url.scheme] # NullSource
            THEN MakeRet("invoke", op, sch[resolved.url.scheme],
                         resolved.url.path, NoUrl)
            ELSE Thrown

\* with_file_source looking for a source of the url's own scheme before it
\* resolves aliases
with_file_source_source_first(al, sch, op, url) ==
    LET resolved == resolve_url(al, url, 0)
    IN  IF url.scheme \in DOMAIN sch
            THEN MakeRet("invoke", op, sch[url.scheme], url.path, NoUrl)
        ELSE IF resolved.kind = "throw" THEN Thrown
        ELSE IF resolved.url.scheme \in DOMAIN sch
                /\ sch[resolved.url.scheme] # NullSource
            THEN MakeRet("invoke", op, sch[resolved.url.scheme],
                         resolved.url.path, NoUrl)
            ELSE Returned(fallback_result(op))

\* with_file_source catching the resolver's exception and returning the
\* fallback
with_file_source_swallow(al, sch, op, url) ==
    LET resolved == resolve_url(al, url, 0)
    IN  IF resolved.kind = "throw" THEN Returned(fallback_result(op))
        ELSE IF resolved.url.scheme \in DOMAIN sch
                /\ sch[resolved.url.scheme] # NullSource
            THEN MakeRet("invoke", op, sch[resolved.url.scheme],
                         resolved.url.path, NoUrl)
            ELSE Returned(fallback_result(op))

\* with_file_source: resolve, look the resolved scheme up, and either invoke f
\* on the source with the resolved path or return the fallback
with_file_source(al, sch, op, url) ==
    LET resolved == resolve_url(al, url, 0)
    IN  IF resolved.kind = "throw" THEN Thrown
        ELSE IF resolved.url.scheme \in DOMAIN sch
                /\ sch[resolved.url.scheme] # NullSource
            THEN MakeRet("invoke", op, sch[resolved.url.scheme],
                         resolved.url.path, NoUrl)
            ELSE Returned(fallback_result(op))

----------------------------------------------------------------------------
(* the mutators' bodies, as functions of the maps *)

\* register_scheme storing the source over an existing entry (insert_or_assign)
register_scheme_overwrite(sch, scheme, source) ==
    IF source # NullSource /\ valid(source)
        THEN [schemes |-> [x \in DOMAIN sch \cup {scheme} |->
                            IF x = scheme THEN source ELSE sch[x]],
              result |-> scheme \notin DOMAIN sch]
        ELSE [schemes |-> sch, result |-> FALSE]

\* register_scheme inserting whatever it is handed, without the test
\* source && source->valid()
register_scheme_unchecked(sch, scheme, source) ==
    LET r == MapInsert(sch, scheme, source)
    IN  [schemes |-> r.map, result |-> r.second]

register_scheme(sch, scheme, source) ==
    IF source # NullSource /\ valid(source)
        THEN LET r == MapInsert(sch, scheme, source)
             IN  [schemes |-> r.map, result |-> r.second]
        ELSE [schemes |-> sch, result |-> FALSE]

\* unregister_scheme dropping every entry when the name is found
unregister_scheme_clear(sch, scheme) ==
    IF scheme \in DOMAIN sch
        THEN [schemes |-> EmptyMap, result |-> TRUE]
        ELSE [schemes |-> sch, result |-> FALSE]

unregister_scheme(sch, scheme) ==
    LET r == MapErase(sch, scheme)
    IN  [schemes |-> r.map, result |-> r.count > 0]

\* register_scheme_alias storing the url over an existing alias
register_scheme_alias_overwrite(al, scheme, alias) ==
    [aliases |-> [x \in DOMAIN al \cup {scheme} |->
                    IF x = scheme THEN alias ELSE al[x]],
     result |-> scheme \notin DOMAIN al]

\* a register_scheme_alias that resolves the new alias first and refuses it
\* when the resolution fails
register_scheme_alias_checked(al, scheme, alias) ==
    LET r == MapInsert(al, scheme, alias)
    IN  IF r.second /\ resolve_url(r.map, alias, 0).kind = "throw"
            THEN [aliases |-> al, result |-> FALSE]
            ELSE [aliases |-> r.map, result |-> r.second]

register_scheme_alias(al, scheme, alias) ==
    LET r == MapInsert(al, scheme, alias)
    IN  [aliases |-> r.map, result |-> r.second]

unregister_scheme_alias(al, scheme) ==
    LET r == MapErase(al, scheme)
    IN  [aliases |-> r.map, result |-> r.count > 0]

\* what a source method hands back: ok tells whether the backend succeeded
source_result(op, ok) ==
    CASE op = "exists"     -> IF ok THEN "true" ELSE "false"
      [] op = "open"       -> IF ok THEN "stream" ELSE "empty_stream"
      [] op = "load_async" -> IF ok THEN "stream" ELSE "empty_stream"
      [] op = "load"       -> IF ok THEN "buffer_true" ELSE "empty_buffer_false"
      [] op = "write"      -> IF ok THEN "stream" ELSE "empty_stream"

\* an archive source whose write opens a file for writing, as the filesystem
\* source's does
archive_file_source_write_file(path, append) == "stream"

\* archive_file_source::write(path, append): return nullptr
archive_file_source_write(path, append) == "empty_stream"

\* the virtual call source->exists / open / load / write on a source object
source_method(source, op, path, ok, append) ==
    IF SourceKind(source) = "archive" /\ op = "write"
        THEN archive_file_source_write(path, append)
        ELSE source_result(op, ok)

BoolStr(b) == IF b THEN "true" ELSE "false"

----------------------------------------------------------------------------
(* Spec: caller threads *)

Range(f) == {f[x] : x \in DOMAIN f}

\* load_async tasks alive: opened but not yet submitted, queued, or running
TasksAlive ==
    Cardinality({t \in Threads : call[t].op = "load_async" /\ pc[t] # "wait"})
    + Len(queue) + (IF running = NoTask THEN 0 ELSE 1)

\* what archive_file_source's constructor is given: a stream holding a zip
\* archive, a stream whose central directory does not parse, or no stream
ArInputs == {"zip", "garbage", "null"}

MakeArRet(op, kind, val, arg) == [op |-> op, kind |-> kind, val |-> val, arg |-> arg]

\* mz_zip_reader_init(archive, stream->length(), 0): reads the central directory
mz_zip_reader_init(stream) == stream = "zip"

\* an open_archive_ that keeps the archive whatever mz_zip_reader_init said
open_archive__unchecked(stream, alloc_ok) ==
    IF stream # "null" /\ alloc_ok THEN "opened" ELSE "null"

\* archive_file_source::state::open_archive_ (noexcept): the archive, or the
\* empty archive_ptr when there is no stream, calloc fails (alloc_ok false) or
\* mz_zip_reader_init fails
open_archive_(stream, alloc_ok) ==
    IF stream # "null"
        THEN IF alloc_ok
                THEN IF mz_zip_reader_init(stream) THEN "opened" ELSE "null"
                ELSE "null"
        ELSE "null"

\* no call has taken effect and no source object exists yet
InitHist ==
    /\ hist = << >>
    /\ passed = {}
    /\ destroyed = [o \in SourceObjects |-> 0]
    /\ futures = << >>

\* archive_file_source(stream): state_(new state(std::move(stream))), with
\* archive(open_archive_(nstream)) and stream(std::move(nstream)); each of the
\* two shared_ptrs that is not empty has its one owner
InitArchive(stream, alloc_ok) ==
    LET archive == open_archive_(stream, alloc_ok)
    IN  /\ a_archive = [from |-> stream, ptr |-> archive]
        /\ a_src = "alive"
        /\ a_refs = [archive |-> IF archive = "null" THEN 0 ELSE 1,
                     stream |-> IF stream = "null" THEN 0 ELSE 1]
        /\ a_freed = [archive |-> 0, stream |-> 0]
        /\ a_streams = << >>
        /\ a_ret = MakeArRet("archive_file_source", "value", archive, stream)
        /\ a_cursor = 0

\* The file system: "dir" is a directory; "new.txt" does not exist.
FsNames == {"new.txt", "dir"}
\* what a path names: a file with its bytes, a directory, or nothing
MakeFile(kind, bytes) == [kind |-> kind, bytes |-> bytes]

\* no output stream
NoOut == [name |-> "", state |-> "none", append |-> FALSE, written |-> << >>]
MakeFsRet(op, url, kind, val) == [op |-> op, url |-> url, kind |-> kind, val |-> val]

InitFs ==
    /\ f_files = [n \in FsNames |->
                    MakeFile(IF n = "dir" THEN "dir" ELSE "none", << >>)]
    /\ f_out = NoOut
    /\ f_ret = MakeFsRet("none", NoUrl, "none", "none")

\* who reads the archive's backing stream: the worker thread of load_async,
\* draining a stream, and a caller thread inside vfs::load
Readers == {"worker", "caller"}
MakeReq(path, pos, size) == [path |-> path, pos |-> pos, size |-> size]

InitReaders ==
    /\ r_pc = [r \in Readers |-> IF r = "worker" THEN "none" ELSE "idle"]
    /\ r_req = [r \in Readers |-> MakeReq("", 0, 0)]
    /\ r_out = [r \in Readers |-> << >>]

\* an archive source has been constructed on an archive that opened
InitExt ==
    /\ InitHist
    /\ InitArchive("zip", TRUE)
    /\ InitFs
    /\ InitReaders

InitRegistry ==
    /\ aliases = EmptyMap
    /\ schemes = EmptyMap
    /\ mutex = NoThread
    /\ pc = [t \in Threads |-> "idle"]
    /\ call = [t \in Threads |-> NoCall]
    /\ ret = [t \in Threads |-> NoRet]
    /\ queue = << >>
    /\ running = NoTask
    /\ c_cfg = [n |-> 0, tail |-> "none"]
    /\ c_in = NoUrl
    /\ c_url = NoUrl
    /\ c_level = 0
    /\ c_pc = "off"
    /\ c_lookups = 0

Init ==
    /\ InitRegistry
    /\ InitExt

\* an operation entered without the lock_guard: the mutex is not taken
Enter_unlocked(t, c) ==
    /\ pc[t] = "idle" \/ (pc[t] = "wait" /\ call[t] = c)
    /\ mutex = NoThread
    /\ mutex' = mutex
    /\ call' = [call EXCEPT ![t] = c]

\* Every operation starts with std::lock_guard<std::mutex> guard(state_->mutex)
\* and runs its body under it: thread t enters with call c once the mutex is
\* free, and holds it from then on.  (A thread at "wait" has called the
\* operation already and is blocked in the lock_guard's constructor.)
Enter(t, c) ==
    /\ pc[t] = "idle" \/ (pc[t] = "wait" /\ call[t] = c)
    /\ mutex = NoThread
    /\ mutex' = t
    /\ call' = [call EXCEPT ![t] = c]

\* the body has produced outcome r; the guard is still in scope
Leave(t, r) ==
    /\ ret' = [ret EXCEPT ![t] = r]
    /\ pc' = [pc EXCEPT ![t] = IF r.kind = "invoke" THEN "io" ELSE "unlock"]

\* A source object passed to register_scheme is owned by the caller alone
\* (file_source_uptr), so it is not one the registry holds.
RegisterScheme(t, scheme, source) ==
    /\ source # NullSource => source \notin Range(schemes)
    /\ Enter(t, MakeCall("register_scheme", scheme, source, NoUrl))
    /\ LET r == register_scheme(schemes, scheme, source)
       IN  /\ schemes' = r.schemes
           /\ Leave(t, Returned(BoolStr(r.result)))
    /\ UNCHANGED <<aliases, asyncVars, offVars>>

\* an unregister_scheme that also erases the aliases whose target is the
\* scheme it removes
UnregisterScheme_purge(t, scheme) ==
    /\ Enter(t, MakeCall("unregister_scheme", scheme, NullSource, NoUrl))
    /\ LET r == unregister_scheme(schemes, scheme)
       IN  /\ schemes' = r.schemes
           /\ aliases' = IF r.result
                            THEN [x \in {y \in DOMAIN aliases : aliases[y].scheme # scheme}
                                    |-> aliases[x]]
                            ELSE aliases
           /\ Leave(t, Returned(BoolStr(r.result)))
    /\ UNCHANGED <<asyncVars, offVars>>

UnregisterScheme(t, scheme) ==
    /\ Enter(t, MakeCall("unregister_scheme", scheme, NullSource, NoUrl))
    /\ LET r == unregister_scheme(schemes, scheme)
       IN  /\ schemes' = r.schemes
           /\ Leave(t, Returned(BoolStr(r.result)))
    /\ UNCHANGED <<aliases, asyncVars, offVars>>

RegisterSchemeAlias(t, scheme, alias) ==
    /\ Enter(t, MakeCall("register_scheme_alias", scheme, NullSource, alias))
    /\ LET r == register_scheme_alias(aliases, scheme, alias)
       IN  /\ aliases' = r.aliases
           /\ Leave(t, Returned(BoolStr(r.result)))
    /\ UNCHANGED <<schemes, asyncVars, offVars>>

UnregisterSchemeAlias(t, scheme) ==
    /\ Enter(t, MakeCall("unregister_scheme_alias", scheme, NullSource, NoUrl))
    /\ LET r == unregister_scheme_alias(aliases, scheme)
       IN  /\ aliases' = r.aliases
           /\ Leave(t, Returned(BoolStr(r.result)))
    /\ UNCHANGED <<schemes, asyncVars, offVars>>

\* a facade operation that holds the lock_guard for the lookup only, and has
\* let go of the mutex when it invokes the lambda on the matched source
Facade_lookup_only(t, op, url) ==
    /\ pc[t] = "idle" \/ (pc[t] = "wait" /\ call[t] = MakeCall(op, NoName, NullSource, url))
    /\ mutex = NoThread
    /\ mutex' = NoThread
    /\ call' = [call EXCEPT ![t] = MakeCall(op, NoName, NullSource, url)]
    /\ Leave(t, with_file_source(aliases, schemes, op, url))
    /\ UNCHANGED <<aliases, schemes, asyncVars, offVars>>

\* a with_file_source that looks the source up with schemes[scheme] instead of
\* schemes.find: a scheme that is not in the map gets an empty entry
Facade_subscript(t, op, url) ==
    /\ Enter(t, MakeCall(op, NoName, NullSource, url))
    /\ Leave(t, with_file_source(aliases, schemes, op, url))
    /\ LET resolved == resolve_url(aliases, url, 0)
       IN  schemes' = IF resolved.kind = "throw" THEN schemes
                      ELSE MapInsert(schemes, resolved.url.scheme, NullSource).map
    /\ UNCHANGED <<aliases, asyncVars, offVars>>

\* exists / open / load / write up to the point where with_file_source throws,
\* returns the fallback, or invokes the lambda on the matched source
Facade(t, op, url) ==
    /\ Enter(t, MakeCall(op, NoName, NullSource, url))
    /\ Leave(t, with_file_source(aliases, schemes, op, url))
    /\ UNCHANGED <<aliases, schemes, asyncVars, offVars>>

Exists(t, url) == Facade(t, "exists", url)
Open(t, url)   == Facade(t, "open", url)
Load(t, url)   == Facade(t, "load", url)
Write(t, url)  == Facade(t, "write", url)

\* a load_async that takes the registry mutex itself and then calls open, which
\* blocks on the mutex its own caller holds
LoadAsync_relock(t, url) ==
    /\ TasksAlive < MaxTasks
    /\ Enter(t, MakeCall("load_async", NoName, NullSource, url))
    /\ pc' = [pc EXCEPT ![t] = "wait"]
    /\ UNCHANGED <<aliases, schemes, ret, asyncVars, offVars>>

\* load_async evaluates open(url) on the calling thread as the task's argument
LoadAsync(t, url) ==
    /\ TasksAlive < MaxTasks
    /\ Facade(t, "load_async", url)

\* the source's exists/open/load/write (the lambda's body) runs and returns;
\* the registry mutex is still held by t
SourceCall(t) ==
    /\ pc[t] = "io"
    /\ \E ok \in BOOLEAN, append \in BOOLEAN :
        ret' = [ret EXCEPT ![t] =
                    MakeRet("value",
                            source_method(ret[t].source, call[t].op, ret[t].path,
                                          ok, append),
                            ret[t].source, ret[t].path, NoUrl)]
    /\ pc' = [pc EXCEPT ![t] = "unlock"]
    /\ UNCHANGED <<regVars, call, asyncVars, offVars>>

ResolveSchemeAliases(t, url) ==
    /\ Enter(t, MakeCall("resolve_scheme_aliases", NoName, NullSource, url))
    /\ LET r == resolve_url(aliases, url, 0)
       IN  Leave(t, IF r.kind = "throw" THEN Thrown
                    ELSE MakeRet("value", "url", NullSource, EmptyPath, r.url))
    /\ UNCHANGED <<aliases, schemes, asyncVars, offVars>>

\* the task load_async builds from what open returned: the lambda with the opened stream (a stream
\* of a source's entry, or the empty input_stream_uptr) as its argument
Task(r) ==
    IF r.val = "stream"
        THEN MakeRet("task", "stream", r.source, r.path, NoUrl)
        ELSE MakeRet("task", "empty_stream", NullSource, EmptyPath, NoUrl)

\* the lock_guard goes out of scope, by return or by the exception unwinding,
\* and the call returns to its caller; load_async goes on to submit its task
\* unless open threw
Release(t) ==
    /\ pc[t] = "unlock"
    /\ mutex = t
    /\ mutex' = NoThread
    /\ IF call[t].op = "load_async" /\ ret[t].kind # "throw"
         THEN /\ pc' = [pc EXCEPT ![t] = "submit"]
              /\ call' = [call EXCEPT ![t] =
                            MakeCall("load_async", NoName, NullSource, NoUrl)]
              /\ ret' = [ret EXCEPT ![t] = Task(ret[t])]
         ELSE /\ pc' = [pc EXCEPT ![t] = "idle"]
              /\ call' = [call EXCEPT ![t] = NoCall]
              /\ ret' = [ret EXCEPT ![t] = NoRet]
    /\ UNCHANGED <<aliases, schemes, asyncVars, offVars>>

\* load_async: state_->worker.async(lambda, <the opened stream>)
Submit(t) ==
    /\ pc[t] = "submit"
    /\ queue' = Append(queue, ret[t])
    /\ pc' = [pc EXCEPT ![t] = "idle"]
    /\ call' = [call EXCEPT ![t] = NoCall]
    /\ ret' = [ret EXCEPT ![t] = NoRet]
    /\ UNCHANGED <<regVars, running, offVars>>

\* jobber worker{1}: the one worker thread takes the oldest task ...
WorkerStart ==
    /\ running = NoTask
    /\ queue # << >>
    /\ running' = Head(queue)
    /\ queue' = Tail(queue)
    /\ UNCHANGED <<regVars, callVars, offVars>>

\* ... and runs the lambda (streams::try_read_tail on the stream) to its end
WorkerFinish ==
    /\ running # NoTask
    /\ running' = NoTask
    /\ UNCHANGED <<regVars, callVars, queue, offVars>>

Next ==
    \/ \E t \in Threads, n \in SchemeNames, src \in SourceObjects \cup {NullSource} :
            RegisterScheme(t, n, src)
    \/ \E t \in Threads, n \in SchemeNames : UnregisterScheme(t, n)
    \/ \E t \in Threads, n \in SchemeNames, u \in AliasTargets :
            RegisterSchemeAlias(t, n, u)
    \/ \E t \in Threads, n \in SchemeNames : UnregisterSchemeAlias(t, n)
    \/ \E t \in Threads, u \in RequestUrls : Exists(t, u)
    \/ \E t \in Threads, u \in RequestUrls : Open(t, u)
    \/ \E t \in Threads, u \in RequestUrls : Load(t, u)
    \/ \E t \in Threads, u \in RequestUrls : Write(t, u)
    \/ \E t \in Threads, u \in RequestUrls : LoadAsync(t, u)
    \/ \E t \in Threads, u \in RequestUrls : ResolveSchemeAliases(t, u)
    \/ \E t \in Threads : SourceCall(t)
    \/ \E t \in Threads : Release(t)
    \/ \E t \in Threads : Submit(t)
    \/ WorkerStart
    \/ WorkerFinish

Spec == Init /\ [][Next]_vars

----------------------------------------------------------------------------
(* SpecChain: one resolve_scheme_aliases call on a registry holding a chain *)

\* the path of the alias registered for chain scheme i
ChainHopPath(i) ==
    CASE i % 3 = 0 -> <<"base">>
      [] i % 3 = 1 -> EmptyPath
      [] OTHER     -> <<"sub">>

ChainTails == {"end", "self", "back"}

\* The alias map after register_scheme_alias(i, (i+1):ChainHopPath(i)) for
\* i = 0 .. n-1: scheme 0 is n hops away from scheme n.  Scheme n then has no
\* alias ("end"), or is aliased to itself ("self") or to scheme 0 ("back").
ChainAliases(n, tail) ==
    [i \in (0 .. n - 1) \cup (IF tail = "end" THEN {} ELSE {n}) |->
        IF i < n THEN MakeUrl(i + 1, ChainHopPath(i))
        ELSE IF tail = "self" THEN MakeUrl(n, ChainHopPath(n))
        ELSE MakeUrl(0, ChainHopPath(n))]

ChainUrls == {MakeUrl(0, FilePath), MakeUrl(0, EmptyPath)}

InitChain ==
    /\ \E n \in 0 .. MaxChain, tail \in ChainTails :
        /\ aliases = ChainAliases(n, tail)
        /\ c_cfg = [n |-> n, tail |-> tail]
    /\ schemes = EmptyMap
    /\ mutex = NoThread
    /\ pc = [t \in Threads |-> "idle"]
    /\ call = [t \in Threads |-> NoCall]
    /\ ret = [t \in Threads |-> NoRet]
    /\ queue = << >>
    /\ running = NoTask
    /\ c_in \in ChainUrls
    /\ c_url = NoUrl
    /\ c_level = 0
    /\ c_pc = "idle"
    /\ c_lookups = 0
    /\ InitExt

\* resolve_scheme_aliases(url): take the mutex, call resolve_url(url) with the
\* default level 0
ChainCall ==
    /\ c_pc = "idle"
    /\ mutex = NoThread
    /\ mutex' = "t1"
    /\ c_url' = c_in
    /\ c_level' = 0
    /\ c_pc' = "running"
    /\ UNCHANGED <<aliases, schemes, callVars, asyncVars, extVars, c_cfg, c_in, c_lookups>>

\* one invocation of resolve_url: the level check, then aliases.find, then
\* the recursive call or the return
ChainStep ==
    /\ c_pc = "running"
    /\ LET b == resolve_url_body(aliases, c_url, c_level)
       IN  /\ c_pc' = CASE b.kind = "throw"  -> "throwing"
                        [] b.kind = "return" -> "returning"
                        [] OTHER             -> "running"
           /\ c_url' = IF b.kind = "throw" THEN c_url ELSE b.url
           /\ c_level' = b.level
           /\ c_lookups' = IF b.kind = "throw" THEN c_lookups ELSE c_lookups + 1
    /\ UNCHANGED <<regVars, callVars, asyncVars, extVars, c_cfg, c_in>>

\* the lock_guard of resolve_scheme_aliases goes out of scope
ChainRelease ==
    /\ c_pc \in {"returning", "throwing"}
    /\ mutex' = NoThread
    /\ c_pc' = IF c_pc = "returning" THEN "returned" ELSE "thrown"
    /\ UNCHANGED <<aliases, schemes, callVars, asyncVars, extVars,
                   c_cfg, c_in, c_url, c_level, c_lookups>>

NextChain == ChainCall \/ ChainStep \/ ChainRelease

SpecChain == InitChain /\ [][NextChain]_vars

----------------------------------------------------------------------------
(* Alias termination (SpecChain) *)

ChainEnded == c_pc \in {"returning", "returned", "throwing", "thrown"}

\* the path scheme 0's url has after n hops along the chain: every hop puts
\* the alias target's path in front of the path so far
RECURSIVE ChainPath(_, _)
ChainPath(n, path) ==
    IF n = 0 THEN path ELSE ChainHopPath(n - 1) \o ChainPath(n - 1, path)

\* C1: when the alias chain from the url's scheme has N <= 32 hops and ends at
\* a scheme without alias, resolve_scheme_aliases returns (does not throw) and
\* the result is the url at the end of the chain: the last scheme, which has
\* no alias, with the hops' paths joined in front of the url's path.
C1_ChainWithinDepthResolves ==
    (ChainEnded /\ c_cfg.tail = "end" /\ c_cfg.n <= 32)
        => /\ c_pc \in {"returning", "returned"}
           /\ c_url = MakeUrl(c_cfg.n, ChainPath(c_cfg.n, c_in.path))
           /\ c_url.scheme \notin DOMAIN aliases

\* a chain of exactly 32 hops has been resolved
C1_Witness ==
    /\ c_pc = "returned"
    /\ c_cfg = [n |-> 32, tail |-> "end"]
    /\ c_url.scheme = 32
    /\ c_lookups = 33

\* C2: a chain of 33 hops (or more), and every chain that runs into a cycle
\* (a scheme aliased to itself, or back to the first scheme), ends with
\* bad_vfs_operation thrown, after exactly 33 alias lookups; no resolution
\* makes more than 33 lookups, the depth counter standing at the number of
\* lookups made, so the recursion always ends.
C2_OverlongOrCyclicFails ==
    /\ c_lookups <= 33
    /\ c_pc = "running" => c_level = c_lookups
    /\ (ChainEnded /\ (c_cfg.tail # "end" \/ c_cfg.n >= 33))
            => c_pc \in {"throwing", "thrown"} /\ c_lookups = 33

\* the resolution of a 33-hop chain has thrown
C2_Witness ==
    /\ c_pc = "thrown"
    /\ c_cfg = [n |-> 33, tail |-> "end"]
    /\ c_lookups = 33

\* a scheme aliased to itself has thrown as well
C2_WitnessSelfAlias ==
    /\ c_pc = "thrown"
    /\ c_cfg = [n |-> 0, tail |-> "self"]

----------------------------------------------------------------------------
(* Resolution through the facade (Spec) *)

\* thread t is inside operation op, its body done, the mutex still held
Done(t, op) == pc[t] = "unlock" /\ call[t].op = op

\* C3: when resolve_scheme_aliases returns, the returned url's scheme has no
\* alias and resolving the returned url again returns that same url; a url
\* whose scheme has no alias is returned as it was passed.
C3_ResolvedUrlIsFinal ==
    \A t \in Threads :
        Done(t, "resolve_scheme_aliases") =>
            /\ ret[t].kind = "value" =>
                /\ ret[t].url.scheme \notin DOMAIN aliases
                /\ resolve_url(aliases, ret[t].url, 0).kind = "return"
                /\ resolve_url(aliases, ret[t].url, 0).url = ret[t].url
            /\ call[t].url.scheme \notin DOMAIN aliases =>
                ret[t].kind = "value" /\ ret[t].url = call[t].url

\* a resolution that followed an alias has returned
C3_Witness ==
    \E t \in Threads :
        /\ Done(t, "resolve_scheme_aliases")
        /\ ret[t].kind = "value"
        /\ call[t].url.scheme \in DOMAIN aliases
        /\ ret[t].url # call[t].url

\* C4: with an alias S -> T:base and no alias on T, resolving S:path returns
\* T:base/path, the alias target's scheme and the target's path joined with
\* the url's path; aliasScheme:sub/file.txt with aliasScheme -> real:base
\* gives real:base/sub/file.txt.
C4_SingleAliasJoin ==
    \A t \in Threads :
        (/\ Done(t, "resolve_scheme_aliases")
         /\ call[t].url.scheme \in DOMAIN aliases
         /\ aliases[call[t].url.scheme].scheme \notin DOMAIN aliases)
        => LET target == aliases[call[t].url.scheme]
           IN  /\ ret[t].kind = "value"
               /\ ret[t].url.scheme = target.scheme
               /\ ret[t].url.path = target.path \o call[t].url.path
               /\ (target.path = <<"base">> /\ call[t].url.path = <<"sub", "file.txt">>)
                    => ret[t].url.path = <<"base", "sub", "file.txt">>

\* aliasScheme:sub/file.txt has been resolved to real:base/sub/file.txt
C4_Witness ==
    \E t \in Threads :
        /\ Done(t, "resolve_scheme_aliases")
        /\ call[t].url = MakeUrl(0, <<"sub", "file.txt">>)
        /\ DOMAIN aliases = {0}
        /\ aliases[0] = MakeUrl(1, <<"base">>)
        /\ ret[t].url = MakeUrl(1, <<"base", "sub", "file.txt">>)

----------------------------------------------------------------------------
(* The mutators (Spec) *)

\* this step is thread t running the body of operation op
Runs(t, op) == pc[t] = "idle" /\ pc'[t] # "idle" /\ call'[t].op = op

\* map m with the entry k -> v added, and with the entry of k removed
With(m, k, v) == [x \in DOMAIN m \cup {k} |-> IF x = k THEN v ELSE m[x]]
Without(m, k) == [x \in DOMAIN m \ {k} |-> m[x]]

\* C5: register_scheme(name, source) returns false and leaves the scheme map
\* as it was when the source is null, when the source is not valid (an
\* archive source whose archive did not open), or when name already has a
\* source; otherwise it returns true and the map has gained name -> source
\* and nothing else.
C5_RegisterScheme ==
    [][\A t \in Threads :
        Runs(t, "register_scheme") =>
            LET name   == call'[t].name
                source == call'[t].source
            IN  IF \/ source = NullSource
                   \/ source = "ar_bad"
                   \/ name \in DOMAIN schemes
                THEN ret'[t].val = "false" /\ schemes' = schemes
                ELSE ret'[t].val = "true" /\ schemes' = With(schemes, name, source)
      ]_vars

\* a valid source was refused because the name already has another source,
\* which is still the one registered
C5_Witness ==
    \E t \in Threads :
        /\ Done(t, "register_scheme")
        /\ call[t].source \in {"fs1", "ar1"}
        /\ ret[t].val = "false"
        /\ call[t].name \in DOMAIN schemes
        /\ schemes[call[t].name] # call[t].source

\* C6: unregister_scheme(name) returns true exactly when name had a source,
\* and then the scheme map has lost that entry and no other; when name had no
\* source it returns false and the scheme map is unchanged; the alias map is
\* unchanged either way.
C6_UnregisterScheme ==
    [][\A t \in Threads :
        Runs(t, "unregister_scheme") =>
            LET name == call'[t].name
            IN  /\ ret'[t].val = (IF name \in DOMAIN schemes THEN "true" ELSE "false")
                /\ schemes' = Without(schemes, name)
                /\ name \notin DOMAIN schemes => schemes' = schemes
                /\ aliases' = aliases
      ]_vars

\* a source has been unregistered while another scheme keeps its source
C6_Witness ==
    \E t \in Threads :
        /\ Done(t, "unregister_scheme")
        /\ ret[t].val = "true"
        /\ call[t].name \notin DOMAIN schemes
        /\ DOMAIN schemes # {}

\* C7: register_scheme_alias(name, url) adds name -> url and returns true when
\* name has no alias, and otherwise returns false with the alias map, so the
\* existing target, unchanged; unregister_scheme_alias(name) removes name's
\* alias and returns whether there was one.  Alias operations leave the
\* scheme map unchanged, register_scheme and unregister_scheme leave the
\* alias map unchanged.
C7_AliasOperations ==
    [][\A t \in Threads :
        /\ Runs(t, "register_scheme_alias") =>
            LET name == call'[t].name
            IN  /\ IF name \in DOMAIN aliases
                    THEN ret'[t].val = "false" /\ aliases' = aliases
                    ELSE ret'[t].val = "true"
                         /\ aliases' = With(aliases, name, call'[t].url)
                /\ schemes' = schemes
        /\ Runs(t, "unregister_scheme_alias") =>
            LET name == call'[t].name
            IN  /\ ret'[t].val = (IF name \in DOMAIN aliases THEN "true" ELSE "false")
                /\ aliases' = Without(aliases, name)
                /\ schemes' = schemes
        /\ (Runs(t, "register_scheme") \/ Runs(t, "unregister_scheme")) =>
                aliases' = aliases
      ]_vars

\* an alias was refused for a name that already has a different alias, while
\* a source is registered
C7_Witness ==
    \E t \in Threads :
        /\ Done(t, "register_scheme_alias")
        /\ ret[t].val = "false"
        /\ call[t].name \in DOMAIN aliases
        /\ aliases[call[t].name] # call[t].url
        /\ DOMAIN schemes # {}

----------------------------------------------------------------------------
(* Dispatch (Spec) *)

\* the scheme the alias chain from scheme s ends at, if it ends within k hops;
\* NoName if it does not
RECURSIVE AliasEnd(_, _)
AliasEnd(s, k) ==
    IF s \notin DOMAIN aliases THEN s
    ELSE IF k = 0 THEN NoName
    ELSE AliasEnd(aliases[s].scheme, k - 1)

\* thread t is inside facade operation op, past with_file_source's lookup
Inside(t) == pc[t] \in {"io", "unlock"}

\* C8: when the scheme a url resolves to has no registered source, exists
\* returns false, open the empty stream handle, load (empty buffer, false) and
\* write the empty handle: each returns, without throwing and without any
\* source being invoked.
C8_MissingSchemeSoftFails ==
    \A t \in Threads :
        (/\ Inside(t)
         /\ call[t].op \in {"exists", "open", "load", "write"}
         /\ AliasEnd(call[t].url.scheme, 32) # NoName
         /\ AliasEnd(call[t].url.scheme, 32) \notin DOMAIN schemes)
        => /\ pc[t] = "unlock"
           /\ ret[t].kind = "value"
           /\ ret[t].source = NullSource
           /\ ret[t].val = CASE call[t].op = "exists" -> "false"
                             [] call[t].op = "open"   -> "empty_stream"
                             [] call[t].op = "load"   -> "empty_buffer_false"
                             [] call[t].op = "write"  -> "empty_stream"

\* load on an aliased url whose target scheme has no source, with a source
\* registered elsewhere, has returned (empty buffer, false)
C8_Witness ==
    \E t \in Threads :
        /\ Done(t, "load")
        /\ call[t].url.scheme \in DOMAIN aliases
        /\ AliasEnd(call[t].url.scheme, 32) \in SchemeNames \ DOMAIN schemes
        /\ DOMAIN schemes # {}
        /\ ret[t].val = "empty_buffer_false"

\* while scheme S has both a source and an alias, a facade operation on S:path
\* does not run on S's own source: it throws, or falls back, or runs on the
\* source of the scheme S's alias chain ends at, another scheme than S
C9_AliasFirst ==
    \A t \in Threads :
        (/\ Inside(t)
         /\ call[t].op \in FacadeOps
         /\ call[t].url.scheme \in DOMAIN aliases
         /\ call[t].url.scheme \in DOMAIN schemes)
        => LET S == call[t].url.scheme
               E == AliasEnd(S, 32)
           IN  /\ ret[t].source # schemes[S]
               /\ E # S
               /\ E = NoName => ret[t].kind = "throw"
               /\ (E # NoName /\ E \in DOMAIN schemes) =>
                    ret[t].kind \in {"invoke", "value"} /\ ret[t].source = schemes[E]
               /\ (E # NoName /\ E \notin DOMAIN schemes) =>
                    ret[t].kind = "value" /\ ret[t].source = NullSource

\* the alias of a scheme goes away only in a step of unregister_scheme_alias
\* on that scheme
C9_OnlyUnregisterAlias ==
    \A S \in SchemeNames :
        (S \in DOMAIN aliases /\ S \notin DOMAIN aliases')
        => \E t \in Threads :
                Runs(t, "unregister_scheme_alias") /\ call'[t].name = S

\* C9: if scheme S has both a source and an alias, the alias is tried first:
\* every facade operation on S:path is dispatched to the source of the scheme
\* S's alias resolves to and never to S's own source, which S:path reaches
\* again only once unregister_scheme_alias(S) has removed the alias.
C9_AliasTakesPrecedence ==
    [] C9_AliasFirst /\ [][C9_OnlyUnregisterAlias]_vars

\* S has a source and an alias, and an operation on S:path is running on the
\* source of the alias's target scheme
C9_Witness ==
    \E t \in Threads :
        /\ pc[t] = "io"
        /\ call[t].url.scheme \in DOMAIN aliases
        /\ call[t].url.scheme \in DOMAIN schemes
        /\ ret[t].source \in SourceObjects
        /\ ret[t].source # schemes[call[t].url.scheme]
        /\ ret[t].source = schemes[aliases[call[t].url.scheme].scheme]

\* the alias chain from the url's scheme does not end within 32 hops
ExceedsDepth(url) == AliasEnd(url.scheme, 32) = NoName

\* C10: when alias resolution of the url exceeds the depth bound, exists,
\* open, load, write and load_async throw bad_vfs_operation to their caller
\* instead of returning false/empty, with no source invoked and the maps and
\* the worker's queue untouched; when the exception leaves the operation the
\* mutex is released, the thread is back at its caller (load_async submits no
\* task), and the scheme and alias maps are still unchanged.
C10_DepthErrorSurfaces ==
    [][\A t \in Threads :
        /\ ((\E op \in FacadeOps : Runs(t, op)) /\ ExceedsDepth(call'[t].url))
            => /\ ret'[t] = Thrown
               /\ pc'[t] = "unlock"
               /\ UNCHANGED <<aliases, schemes, queue, running>>
        /\ (pc[t] = "unlock" /\ ret[t].kind = "throw" /\ pc'[t] # "unlock")
            => /\ mutex = t /\ mutex' = NoThread
               /\ pc'[t] = "idle"
               /\ UNCHANGED <<aliases, schemes, queue, running>>
      ]_vars

\* load_async on a url whose aliases form a two-scheme cycle has thrown, while
\* a source is registered
C10_Witness ==
    \E t \in Threads :
        /\ Done(t, "load_async")
        /\ ret[t].kind = "throw"
        /\ DOMAIN aliases = {0, 1}
        /\ aliases[0].scheme = 1 /\ aliases[1].scheme = 0
        /\ DOMAIN schemes # {}

----------------------------------------------------------------------------
(* The lock and the sources' I/O (Spec) *)

\* the statement of C11 as the spec words it: while a source's exists / open /
\* load / write is running for thread t, t does not hold the registry mutex
C11_IoOutsideLock ==
    \A t \in Threads : pc[t] = "io" => mutex # t

\* C11 (amended): in exists, open, load and write (and the open of
\* load_async) the matched source is looked up under the lock and its
\* exists / open / load / write is invoked and runs while the calling thread
\* still holds the lock; the lock is released only after the source's method
\* has returned.
C11_IoUnderLock ==
    /\ \A t \in Threads :
        pc[t] = "io" => mutex = t /\ ret[t].kind = "invoke"
                        /\ ret[t].source \in Range(schemes)
    /\ mutex # NoThread => pc[mutex] \in {"io", "unlock"}

\* a source's load is running
C11_Witness ==
    \E t \in Threads :
        pc[t] = "io" /\ call[t].op = "load" /\ ret[t].source = "ar1"

----------------------------------------------------------------------------
(* SpecLock: callers blocked on the mutex *)

\* the calls the threads of SpecLock make
LockCalls ==
    {MakeCall("register_scheme", 0, src, NoUrl) : src \in {"fs1", NullSource}}
    \cup {MakeCall("unregister_scheme", 0, NullSource, NoUrl),
          MakeCall("unregister_scheme_alias", 0, NullSource, NoUrl),
          MakeCall("register_scheme_alias", 0, NullSource, MakeUrl(0, <<"base">>)),
          MakeCall("register_scheme_alias", 1, NullSource, MakeUrl(0, EmptyPath))}
    \cup {MakeCall(op, NoName, NullSource, MakeUrl(1, FilePath)) :
            op \in FacadeOps \cup {"resolve_scheme_aliases"}}

\* Thread t calls an operation and reaches its lock_guard.  (A source object
\* is passed by one caller only; load_async calls are held back while
\* MaxTasks tasks are alive.)
Begin(t, c) ==
    /\ pc[t] = "idle"
    /\ c.source # NullSource =>
        /\ c.source \notin Range(schemes)
        /\ \A u \in Threads : call[u].source # c.source
    /\ c.op = "load_async" =>
        Cardinality({u \in Threads : call[u].op = "load_async"})
            + Len(queue) + (IF running = NoTask THEN 0 ELSE 1) < MaxTasks
    /\ pc' = [pc EXCEPT ![t] = "wait"]
    /\ call' = [call EXCEPT ![t] = c]
    /\ UNCHANGED <<regVars, ret, asyncVars, offVars>>

\* the blocked thread t gets the mutex and runs the body of its operation
Acquire(t) ==
    /\ pc[t] = "wait"
    /\ LET c == call[t]
       IN  \/ c.op = "register_scheme" /\ RegisterScheme(t, c.name, c.source)
           \/ c.op = "unregister_scheme" /\ UnregisterScheme(t, c.name)
           \/ c.op = "register_scheme_alias" /\ RegisterSchemeAlias(t, c.name, c.url)
           \/ c.op = "unregister_scheme_alias" /\ UnregisterSchemeAlias(t, c.name)
           \/ c.op = "exists" /\ Exists(t, c.url)
           \/ c.op = "open" /\ Open(t, c.url)
           \/ c.op = "load" /\ Load(t, c.url)
           \/ c.op = "write" /\ Write(t, c.url)
           \/ c.op = "load_async" /\ LoadAsync(t, c.url)
           \/ c.op = "resolve_scheme_aliases" /\ ResolveSchemeAliases(t, c.url)

\* a step of thread t inside an operation it has called
Proceed(t) ==
    Acquire(t) \/ SourceCall(t) \/ Release(t) \/ Submit(t)

NextLock ==
    \/ \E t \in Threads, c \in LockCalls : Begin(t, c)
    \/ \E t \in Threads : Acquire(t)
    \/ \E t \in Threads : SourceCall(t)
    \/ \E t \in Threads : Release(t)
    \/ \E t \in Threads : Submit(t)
    \/ WorkerStart
    \/ WorkerFinish

\* Every thread that can keep running does run (the scheduler), and so does
\* the worker; std::mutex promises nothing about which blocked thread gets
\* the mutex, so no more than weak fairness holds of Acquire.
SpecLock ==
    /\ Init
    /\ [][NextLock]_vars
    /\ \A t \in Threads : WF_vars(Proceed(t))
    /\ WF_vars(WorkerStart)
    /\ WF_vars(WorkerFinish)

\* C12 (as stated): under the scheduler's fairness every call that has reached
\* the lock_guard eventually acquires the mutex, completes and returns.
C12_EveryCallCompletes ==
    \A t \in Threads : (pc[t] = "wait") ~> (pc[t] = "idle")

\* the mutex is held exactly by a thread inside the body of an operation
C12_HolderRuns ==
    /\ mutex # NoThread => pc[mutex] \in {"io", "unlock"}
    /\ \A t \in Threads : pc[t] \in {"io", "unlock"} => mutex = t

\* while a call is in progress some caller can take a step
C12_SomeCallerCanStep ==
    (\E t \in Threads : pc[t] # "idle") => ENABLED (\E t \in Threads : Proceed(t))

\* C12 (amended): all operations take the one mutex and never re-entrantly (the
\* holder is inside an operation's body, never blocked on the mutex, load_async
\* included); a call that holds the mutex always completes and releases it;
\* while calls are blocked on the mutex one of them acquires it; so the
\* system never deadlocks.  A particular blocked call may be overtaken for
\* ever: std::mutex does not order its waiters.
C12_NoDeadlock ==
    /\ [] C12_HolderRuns
    /\ [] C12_SomeCallerCanStep
    /\ \A t \in Threads : (mutex = t) ~> (mutex = NoThread)
    /\ (\E t \in Threads : pc[t] = "wait") ~> (mutex # NoThread)

\* load_async is blocked on the mutex while another call holds it in a
\* source's I/O
C12_Witness ==
    \E t, u \in Threads :
        /\ pc[t] = "wait" /\ call[t].op = "load_async"
        /\ mutex = u /\ pc[u] = "io"

----------------------------------------------------------------------------
(* SpecLin: register_scheme / unregister_scheme / exists, one container      *)
(* access per step                                                           *)

\* the calls one run of SpecLin makes at most
MaxCalls == 4

LinUrls == {MakeUrl(n, FilePath) : n \in SchemeNames}

MakeEntry(op, name, source, result) ==
    [op |-> op, name |-> name, source |-> source, result |-> result]

\* the calls thread t may make; a source object is created by its caller and
\* moved into register_scheme, so each object is passed once
LinCalls ==
    {MakeCall("register_scheme", n, src, NoUrl) :
        n \in SchemeNames, src \in SourceObjects \ passed}
    \cup {MakeCall("unregister_scheme", n, NullSource, NoUrl) : n \in SchemeNames}
    \cup {MakeCall("exists", NoName, NullSource, u) : u \in LinUrls}

\* calls made and not yet returned, plus calls that have taken effect
LinCallsMade ==
    Cardinality({t \in Threads : pc[t] \in {"wait", "find", "apply"}}) + Len(hist)

LinBegin(t, c) ==
    /\ pc[t] = "idle"
    /\ LinCallsMade < MaxCalls
    /\ pc' = [pc EXCEPT ![t] = "wait"]
    /\ call' = [call EXCEPT ![t] = c]
    /\ passed' = IF c.source = NullSource THEN passed ELSE passed \cup {c.source}
    /\ UNCHANGED <<regVars, ret, linOff, hist, destroyed>>

\* a lock_guard that lets a second thread in
LinLock_shared(t) ==
    /\ pc[t] = "wait"
    /\ mutex' = t
    /\ pc' = [pc EXCEPT ![t] = "find"]
    /\ UNCHANGED <<aliases, schemes, call, ret, asyncVars, offVars>>

\* std::lock_guard<std::mutex> guard(state_->mutex)
LinLock(t) ==
    /\ pc[t] = "wait"
    /\ mutex = NoThread
    /\ mutex' = t
    /\ pc' = [pc EXCEPT ![t] = "find"]
    /\ UNCHANGED <<aliases, schemes, call, ret, asyncVars, offVars>>

\* a facade operation whose lock_guard ends with the lookup, before the lambda
\* is invoked on the source found
LinFind_early_unlock(t) ==
    /\ pc[t] = "find"
    /\ LET c == call[t]
           r == CASE c.op = "register_scheme" ->
                        IF c.source # NullSource /\ valid(c.source)
                            THEN Returned(BoolStr(c.name \in DOMAIN schemes))
                            ELSE Returned("invalid")
                  [] c.op = "unregister_scheme" ->
                        IF c.name \in DOMAIN schemes
                            THEN MakeRet("value", "true", schemes[c.name], EmptyPath, NoUrl)
                            ELSE Returned("false")
                  [] OTHER ->
                        with_file_source(aliases, schemes, c.op, c.url)
       IN  ret' = [ret EXCEPT ![t] = r]
    /\ mutex' = IF call[t].op \in FacadeOps THEN NoThread ELSE mutex
    /\ pc' = [pc EXCEPT ![t] = "apply"]
    /\ UNCHANGED <<aliases, schemes, call, asyncVars, offVars>>

\* The lookup each body starts with: insert and erase find the key's slot,
\* with_file_source finds the source of the resolved scheme.  register_scheme
\* tests source && source->valid() first and does not touch the map if not.
LinFind(t) ==
    /\ pc[t] = "find"
    /\ LET c == call[t]
           r == CASE c.op = "register_scheme" ->
                        IF c.source # NullSource /\ valid(c.source)
                            THEN Returned(BoolStr(c.name \in DOMAIN schemes))
                            ELSE Returned("invalid")
                  [] c.op = "unregister_scheme" ->
                        IF c.name \in DOMAIN schemes
                            THEN MakeRet("value", "true", schemes[c.name], EmptyPath, NoUrl)
                            ELSE Returned("false")
                  [] OTHER ->
                        with_file_source(aliases, schemes, c.op, c.url)
       IN  ret' = [ret EXCEPT ![t] = r]
    /\ pc' = [pc EXCEPT ![t] = "apply"]
    /\ UNCHANGED <<regVars, call, asyncVars, offVars>>

Destroy(objs) == [o \in SourceObjects |->
                    IF o \in objs /\ destroyed[o] < 2
                        THEN destroyed[o] + 1 ELSE destroyed[o]]

\* The body takes effect on what the lookup found.  insert stores the source
\* in the free slot, or leaves the map alone and the source dies with the
\* argument; erase removes the slot found and destroys its source; the lambda
\* of exists, open, load or write calls the source found (a call on a
\* destroyed source has no defined outcome).
LinApply(t) ==
    /\ pc[t] = "apply"
    /\ LET c == call[t]
           f == ret[t]
       IN  \/ /\ c.op = "register_scheme"
              /\ IF f.val = "false"
                    THEN /\ schemes' = [x \in DOMAIN schemes \cup {c.name} |->
                                            IF x = c.name THEN c.source ELSE schemes[x]]
                         /\ destroyed' = destroyed
                    ELSE /\ schemes' = schemes
                         /\ destroyed' = Destroy({c.source})
              /\ hist' = Append(hist, MakeEntry(c.op, c.name, c.source,
                                               BoolStr(f.val = "false")))
           \/ /\ c.op = "unregister_scheme"
              /\ IF f.val = "true"
                    THEN /\ schemes' = MapErase(schemes, c.name).map
                         /\ destroyed' = Destroy({f.source})
                    ELSE /\ schemes' = schemes
                         /\ destroyed' = destroyed
              /\ hist' = Append(hist, MakeEntry(c.op, c.name, f.source, f.val))
           \/ /\ c.op \in {"exists", "open", "load", "write"}
              /\ \E ok \in BOOLEAN :
                    hist' = Append(hist, MakeEntry(c.op, c.url.scheme, f.source,
                        IF f.kind # "invoke" THEN f.val
                        ELSE IF destroyed[f.source] > 0 THEN "undefined"
                        ELSE source_method(f.source, c.op, f.path, ok, FALSE)))
              /\ UNCHANGED <<schemes, destroyed>>
    /\ pc' = [pc EXCEPT ![t] = "unlock"]
    /\ UNCHANGED <<aliases, mutex, call, ret, linOff, passed>>

\* vfs::~vfs(): no call is in progress; state_ is deleted, and with it the
\* map and every source it owns
LinDestructor ==
    /\ \A t \in Threads : pc[t] = "idle"
    /\ pc' = [t \in Threads |-> "gone"]
    /\ schemes' = EmptyMap
    /\ destroyed' = Destroy(Range(schemes))
    /\ UNCHANGED <<aliases, mutex, call, ret, linOff, hist, passed>>

NextLin ==
    \/ \E t \in Threads : \E c \in LinCalls : LinBegin(t, c)
    \/ \E t \in Threads : LinLock(t)
    \/ \E t \in Threads : LinFind(t)
    \/ \E t \in Threads : LinApply(t)
    \/ \E t \in Threads : Release(t)
    \/ LinDestructor

SpecLin == Init /\ [][NextLin]_vars

\* the scheme map after the first k calls of hist, made one after the other
\* on an empty registry
RECURSIVE Replay(_)
Replay(k) ==
    IF k = 0 THEN EmptyMap
    ELSE LET e == hist[k]
             m == Replay(k - 1)
         IN  CASE e.op = "register_scheme"   -> register_scheme(m, e.name, e.source).schemes
               [] e.op = "unregister_scheme" -> unregister_scheme(m, e.name).schemes
               [] e.op = "exists"            -> m

\* the k-th call of hist returned what it returns in that sequential order
SequentialResult(k) ==
    LET e == hist[k]
        m == Replay(k - 1)
    IN  CASE e.op = "register_scheme" ->
                e.result = BoolStr(register_scheme(m, e.name, e.source).result)
          [] e.op = "unregister_scheme" ->
                e.result = BoolStr(unregister_scheme(m, e.name).result)
          [] e.op = "exists" ->
                IF e.name \in DOMAIN m
                    THEN e.source = m[e.name] /\ e.result \in {"true", "false"}
                    ELSE e.source = NullSource /\ e.result = "false"

\* the source objects some call still holds as its argument
InArgument ==
    {call[t].source : t \in {u \in Threads : pc[u] \in {"wait", "find", "apply"}}}
        \ {NullSource}

\* C13: the calls of register_scheme, unregister_scheme and exists that have
\* taken effect, in the order they took effect (each inside its own call), are
\* a sequential run with the same return values that ends in the present
\* scheme map; of the register_scheme calls for a name that stays free until
\* one of them succeeds exactly one returns true; every source object handed
\* over is either still owned (by the map, once, or by a call's argument) or
\* has been destroyed exactly once, and after ~vfs all have been.
C13_Linearizable ==
    /\ schemes = IF \A t \in Threads : pc[t] = "gone" THEN EmptyMap
                 ELSE Replay(Len(hist))
    /\ \A k \in 1 .. Len(hist) : SequentialResult(k)
    /\ \A i, j \in 1 .. Len(hist) :
        /\ i < j
        /\ hist[i].op = "register_scheme" /\ hist[j].op = "register_scheme"
        /\ hist[i].name = hist[j].name
        /\ valid(hist[i].source) /\ valid(hist[j].source)
        /\ \A k \in 1 .. j : hist[k].op = "unregister_scheme" => hist[k].name # hist[i].name
        /\ \A k \in 1 .. i - 1 : hist[k].op = "register_scheme" /\ hist[k].name = hist[i].name
                                    => ~valid(hist[k].source)
        => hist[i].result = "true" /\ hist[j].result = "false"
    /\ \A o \in SourceObjects :
        /\ destroyed[o] <= 1
        /\ o \notin passed => destroyed[o] = 0 /\ o \notin Range(schemes)
        /\ o \in passed =>
            (destroyed[o] = 1) = (o \notin Range(schemes) /\ o \notin InArgument)
        /\ Cardinality({n \in DOMAIN schemes : schemes[n] = o}) <= 1
    /\ (\A t \in Threads : pc[t] = "gone") => \A o \in passed : destroyed[o] = 1

\* two register_scheme calls for one free name overlapped (both were made
\* before either took effect); one returned true, the other false and its
\* source was destroyed
C13_Witness ==
    \E i, j \in 1 .. Len(hist) :
        /\ i < j
        /\ hist[i].op = "register_scheme" /\ hist[j].op = "register_scheme"
        /\ hist[i].name = hist[j].name
        /\ hist[i].result = "true" /\ hist[j].result = "false"
        /\ valid(hist[j].source)
        /\ destroyed[hist[j].source] = 1
        /\ \E t \in Threads : pc[t] = "unlock" /\ call[t].source = hist[j].source
        /\ \E t \in Threads : pc[t] = "wait" /\ call[t].op = "exists"

----------------------------------------------------------------------------
(* SpecAsync: load_async, the worker's queue and the futures *)

\* the load_async calls one run of SpecAsync makes at most
MaxLoads == 3

AsyncUrl == MakeUrl(0, FilePath)

FutureDone == {"buffer_true", "empty_buffer_false"}

\* load_async calls made: submitted, or still inside the call
LoadsMade ==
    Len(futures) + Cardinality({t \in Threads : call[t].op = "load_async"})

\* a load_async whose caller only enqueues the url, leaving open to the worker
AsyncLoad_deferred(t, url) ==
    /\ LoadsMade < MaxLoads
    /\ pc[t] = "idle"
    /\ pc' = [pc EXCEPT ![t] = "submit"]
    /\ call' = [call EXCEPT ![t] = MakeCall("load_async", NoName, NullSource, NoUrl)]
    /\ ret' = [ret EXCEPT ![t] = MakeRet("task", "url", NullSource, EmptyPath, url)]
    /\ UNCHANGED <<regVars, asyncVars, offVars>>

\* load_async(url): the argument open(url) of worker.async is evaluated first,
\* by the caller
AsyncLoad(t, url) ==
    /\ LoadsMade < MaxLoads
    /\ Facade(t, "load_async", url)

\* a load_async that runs the lambda on a thread of its own (std::async)
\* instead of handing it to the worker
AsyncSubmit_detached(t) ==
    /\ pc[t] = "submit"
    /\ futures' = Append(futures, [state |-> "running", task |-> ret[t]])
    /\ pc' = [pc EXCEPT ![t] = "idle"]
    /\ call' = [call EXCEPT ![t] = NoCall]
    /\ ret' = [ret EXCEPT ![t] = NoRet]
    /\ UNCHANGED <<regVars, asyncVars, futOff>>

\* state_->worker.async(lambda, <the opened stream>): the task joins the
\* worker's queue and the caller gets its future
AsyncSubmit(t) ==
    /\ pc[t] = "submit"
    /\ futures' = Append(futures, [state |-> "queued", task |-> ret[t]])
    /\ queue' = Append(queue, Len(futures) + 1)
    /\ pc' = [pc EXCEPT ![t] = "idle"]
    /\ call' = [call EXCEPT ![t] = NoCall]
    /\ ret' = [ret EXCEPT ![t] = NoRet]
    /\ UNCHANGED <<regVars, running, futOff>>

\* jobber worker{1}: the one worker thread, when free, takes the oldest task
AsyncStart ==
    /\ running = NoTask
    /\ queue # << >>
    /\ running' = [id |-> Head(queue)]
    /\ queue' = Tail(queue)
    /\ futures' = [futures EXCEPT ![Head(queue)].state = "running"]
    /\ UNCHANGED <<regVars, callVars, futOff>>

\* streams::try_read_tail(buf, stream): false for the empty handle, else
\* whether the stream could be read to its end (ok)
try_read_tail(stream, ok) ==
    IF stream.val = "stream" THEN ok ELSE FALSE

\* a lambda that hands back the buffer whatever try_read_tail returned
AsyncFinish_unchecked ==
    /\ running # NoTask
    /\ futures' = [futures EXCEPT ![running.id].state = "buffer_true"]
    /\ running' = NoTask
    /\ UNCHANGED <<regVars, callVars, queue, futOff>>

\* a task that looks its source up in the scheme map again when it runs, and
\* fails when the source is registered no more
AsyncFinish_lookup ==
    /\ running # NoTask
    /\ \E ok \in BOOLEAN :
        futures' = [futures EXCEPT ![running.id].state =
                        IF futures[running.id].task.source \in Range(schemes)
                           /\ try_read_tail(futures[running.id].task, ok)
                            THEN "buffer_true" ELSE "empty_buffer_false"]
    /\ running' = NoTask
    /\ UNCHANGED <<regVars, callVars, queue, futOff>>

\* the lambda: try_read_tail(buf, stream) ? (buf, true) : (buffer(), false);
\* its value becomes the future's
AsyncFinish ==
    /\ running # NoTask
    /\ \E ok \in BOOLEAN :
        futures' = [futures EXCEPT ![running.id].state =
                        IF try_read_tail(futures[running.id].task, ok)
                            THEN "buffer_true" ELSE "empty_buffer_false"]
    /\ running' = NoTask
    /\ UNCHANGED <<regVars, callVars, queue, futOff>>

NextAsync ==
    \/ \E t \in Threads : AsyncLoad(t, AsyncUrl)
    \/ \E t \in Threads : SourceCall(t)
    \/ \E t \in Threads : Release(t)
    \/ \E t \in Threads : AsyncSubmit(t)
    \/ AsyncStart
    \/ AsyncFinish
    \/ \E t \in Threads : RegisterScheme(t, 0, "fs1")
    \/ \E t \in Threads : UnregisterScheme(t, 0)

\* the worker thread runs whenever it has something to do
SpecAsync ==
    /\ Init
    /\ [][NextAsync]_vars
    /\ WF_vars(AsyncStart)
    /\ WF_vars(AsyncFinish)

\* C14: the one worker of the vfs instance starts the tasks in the order they
\* were submitted and finishes them in that order, and never runs two of them
\* at a time, however many are queued.
C14_SingleWorkerFifo ==
    /\ \A i, j \in 1 .. Len(futures) :
        i < j =>
            /\ futures[j].state # "queued" => futures[i].state # "queued"
            /\ futures[j].state \in FutureDone => futures[i].state \in FutureDone
            /\ futures[j].state = "running" => futures[i].state \in FutureDone
    /\ \A i \in 1 .. Len(futures) :
        /\ futures[i].state = "running" <=> running = [id |-> i]
        /\ futures[i].state = "queued" <=> \E k \in 1 .. Len(queue) : queue[k] = i
    /\ \A k, l \in 1 .. Len(queue) : k < l => queue[k] < queue[l]

\* the first task runs while the second and the third wait in the queue
C14_Witness ==
    /\ Len(futures) >= 3
    /\ futures[1].state = "running"
    /\ futures[2].state = "queued"
    /\ futures[3].state = "queued"

\* C15 (as stated): the calling thread only enqueues the task; it does not
\* open the url itself.
C15_CallerOnlyEnqueues ==
    \A t \in Threads :
        call[t].op = "load_async" => pc[t] \notin {"io", "unlock"} /\ mutex # t

\* what a submitted task holds is an opened stream or the empty handle
OpenedStream(r) ==
    /\ r.kind = "task"
    /\ r.val \in {"stream", "empty_stream"}
    /\ r.val = "stream" <=> r.source # NullSource

C15_TasksHoldStreams ==
    /\ \A t \in Threads : pc[t] = "submit" => OpenedStream(ret[t])
    /\ \A i \in 1 .. Len(futures) : OpenedStream(futures[i].task)
    /\ \A t \in Threads :
        call[t].op = "load_async" /\ pc[t] \in {"io", "unlock"} => mutex = t

\* a step of the worker leaves the registry, its mutex and the callers alone,
\* and the tasks' streams as they were submitted
C15_WorkerOnlyDrains ==
    running' # running =>
        /\ UNCHANGED <<regVars, callVars>>
        /\ Len(futures') = Len(futures)
        /\ \A i \in 1 .. Len(futures) : futures'[i].task = futures[i].task

\* C15 (amended): load_async opens the url on the calling thread, inside the
\* call and under the registry lock; the task it enqueues holds the stream
\* already opened (or the empty handle), and only the drain-to-buffer runs on
\* the worker, which touches neither the registry nor its lock.
C15_OpenOnCallerDrainOnWorker ==
    [] C15_TasksHoldStreams /\ [][C15_WorkerOnlyDrains]_vars

\* the worker drains a stream whose scheme has been unregistered since the
\* caller opened it
C15_Witness ==
    /\ running # NoTask
    /\ futures[running.id].task.val = "stream"
    /\ schemes = EmptyMap

\* a submitted load is never withdrawn, and a completed future keeps its value
C16_NoCancellation ==
    /\ Len(futures') >= Len(futures)
    /\ \A i \in 1 .. Len(futures) :
        futures[i].state \in FutureDone => futures'[i] = futures[i]

\* the states of a future; a task holding the empty handle (no source for the
\* scheme, or the source could not open the file) completes with
\* (empty buffer, false)
C16_ResultIsPair ==
    \A i \in 1 .. Len(futures) :
        /\ futures[i].state \in {"queued", "running"} \cup FutureDone
        /\ futures[i].state \in FutureDone /\ futures[i].task.val = "empty_stream"
            => futures[i].state = "empty_buffer_false"

\* C16: every submitted async load eventually completes, it is never withdrawn,
\* and its future yields (buffer, true) or (empty buffer, false); a load whose
\* open found no source or no stream yields (empty buffer, false).
C16_SubmittedLoadsComplete ==
    /\ [] C16_ResultIsPair
    /\ [][C16_NoCancellation]_vars
    /\ \A i \in 1 .. MaxLoads :
        (Len(futures) >= i) ~> (Len(futures) >= i /\ futures[i].state \in FutureDone)

\* a load of a url whose scheme had no source has completed with
\* (empty buffer, false), and one with a stream with (buffer, true)
C16_Witness ==
    \E i, j \in 1 .. Len(futures) :
        /\ futures[i].task.val = "empty_stream"
        /\ futures[i].state = "empty_buffer_false"
        /\ futures[j].task.val = "stream"
        /\ futures[j].state = "buffer_true"

----------------------------------------------------------------------------
(* SpecArchive: one archive_file_source and the archive_streams opened on it *)

\* the archive_stream objects one run of SpecArchive opens at most
MaxStreams == 2

\* The archive's central directory: "a.txt", "b.txt" and the zero-length
\* "empty.txt" are intact entries, "bad.txt" is listed but its data cannot be
\* extracted; "A.TXT" is not in the archive (names match case-sensitively).
ArIntact  == {"a.txt", "b.txt", "empty.txt"}
ArEntries == ArIntact \cup {"bad.txt"}
ArPaths   == ArEntries \cup {"A.TXT"}
\* the uncompressed bytes of an intact entry
ArContent(path) ==
    CASE path = "a.txt" -> <<"h", "i">>
      [] path = "b.txt" -> <<"x">>
      [] OTHER          -> << >>
\* the backing stream's bytes, and where in them each entry's data starts
ArBacking == ArContent("a.txt") \o ArContent("b.txt")
ArOffset(path) ==
    CASE path = "a.txt" -> 0
      [] path = "b.txt" -> Len(ArContent("a.txt"))
      [] OTHER          -> Len(ArBacking)

Min(a, b) == IF a < b THEN a ELSE b

\* a pull-reader that reads on from wherever the backing stream stands (what
\* lies behind the stream's end is not written to dst)
archive_reader__noseek(cursor, pos, size) ==
    [cursor |-> Min(cursor + size, Len(ArBacking)),
     bytes |-> [k \in 1 .. size |->
                    IF cursor + k <= Len(ArBacking) THEN ArBacking[cursor + k] ELSE "?"]]

\* input_sequence::seek(pos, false) on the backing stream: the position it
\* is left at
input_seek(cursor, pos) == pos

\* input_sequence::read(dst, size) on the backing stream: size bytes from its
\* position on, or a failure that hands out none
input_read(cursor, size) ==
    IF cursor + size <= Len(ArBacking)
        THEN [cursor |-> cursor + size,
              bytes |-> SubSeq(ArBacking, cursor + 1, cursor + size)]
        ELSE [cursor |-> Len(ArBacking), bytes |-> << >>]

\* archive_file_source::state::archive_reader_(opaque, pos, dst, size):
\* input_sequence(*stream).seek(pos, false).read(dst, size)
archive_reader_(cursor, pos, size) ==
    input_read(input_seek(cursor, pos), size)

\* mz_zip_reader_extract_file_iter_new: the iterator state, or NULL when the
\* entry is not found or cannot be set up for extraction
open_iter_state_(path) ==
    IF a_archive.ptr # "null" /\ path \in ArIntact THEN "iter_state" ELSE "null"

\* archive_stream's constructor: throws when there is no iterator state
archive_stream(path) ==
    IF open_iter_state_(path) = "null"
        THEN [kind |-> "throw", val |-> "bad_vfs_operation"]
        ELSE [kind |-> "value", val |-> "stream"]

\* archive_file_source::open without the try block around the construction
archive_file_source_open_uncaught(path) == archive_stream(path)

\* archive_file_source::open: make_unique<archive_stream> inside
\* try { ... } catch (...) { return nullptr; }
archive_file_source_open(path) ==
    LET made == archive_stream(path)
    IN  IF made.kind = "throw"
            THEN [kind |-> "value", val |-> "empty_stream"]
            ELSE made

\* a shared_ptr owner goes away: the use counts drop, and what is left without
\* owner is released (archive_deleter_, the backing stream's destructor)
DropOwner ==
    /\ a_refs' = [k \in DOMAIN a_refs |-> IF a_refs[k] > 0 THEN a_refs[k] - 1 ELSE 0]
    /\ a_freed' = [k \in DOMAIN a_freed |->
                    IF a_refs[k] = 1 THEN a_freed[k] + 1 ELSE a_freed[k]]

\* an open that hands the stream bare pointers instead of copies of the two
\* shared_ptrs
ArOpen_borrowed(path) ==
    /\ a_src = "alive"
    /\ Len(a_streams) < MaxStreams
    /\ LET r == archive_file_source_open(path)
       IN  /\ a_ret' = MakeArRet("open", r.kind, r.val, path)
           /\ a_streams' = IF r.val = "stream"
                            THEN Append(a_streams, [path |-> path, iter_pos |-> 0, out |-> << >>,
                                                    state |-> "open"])
                            ELSE a_streams
    /\ UNCHANGED <<a_src, a_refs, a_freed, arRest>>

\* archive_file_source::open(path): owned_state copies state_->archive and
\* state_->stream, and the new archive_stream keeps a copy of it; when the
\* constructor throws, the copies are dropped again
ArOpen(path) ==
    /\ a_src = "alive"
    /\ Len(a_streams) < MaxStreams
    /\ LET r == archive_file_source_open(path)
       IN  /\ a_ret' = MakeArRet("open", r.kind, r.val, path)
           /\ IF r.val = "stream"
                THEN /\ a_streams' = Append(a_streams, [path |-> path, iter_pos |-> 0, out |-> << >>,
                                                        state |-> "open"])
                     /\ a_refs' = [k \in DOMAIN a_refs |-> a_refs[k] + 1]
                     /\ a_cursor' = archive_reader_(a_cursor, ArOffset(path), 0).cursor
                ELSE UNCHANGED <<a_streams, a_refs, a_cursor>>
    /\ UNCHANGED <<a_src, a_freed, arOff>>

\* the archive and the backing stream are both still there
ArBacked == a_freed.archive = 0 /\ a_freed.stream = 0

\* a read that advances the position by the size asked for
ArRead_by_size(i, size) ==
    /\ a_streams[i].state = "open"
    /\ LET st == a_streams[i]
           read_bytes == Min(size, Len(ArContent(st.path)) - Len(st.out))
           pulled == archive_reader_(a_cursor, ArOffset(st.path) + Len(st.out),
                                     read_bytes)
       IN  /\ a_streams' = [a_streams EXCEPT
                                ![i].iter_pos = st.iter_pos + size,
                                ![i].out = st.out \o pulled.bytes]
           /\ a_cursor' = pulled.cursor
           /\ a_ret' = MakeArRet("read", "value", read_bytes, i)
    /\ UNCHANGED <<a_src, a_refs, a_freed, arOff>>

\* archive_stream::read(dst, size): mz_zip_reader_extract_iter_read hands out
\* what is left of the entry after the bytes the iterator handed out before
\* (out), at most size bytes, pulling them through archive_reader_ from the
\* backing stream; iter_pos_ += read_bytes.  (With the archive or the backing
\* stream released the read has no defined outcome.)
ArRead(i, size) ==
    /\ a_streams[i].state = "open"
    /\ LET st == a_streams[i]
           read_bytes == Min(size, Len(ArContent(st.path)) - Len(st.out))
           pulled == archive_reader_(a_cursor, ArOffset(st.path) + Len(st.out),
                                     read_bytes)
       IN  IF ArBacked
            THEN /\ a_streams' = [a_streams EXCEPT
                                    ![i].iter_pos = st.iter_pos + read_bytes,
                                    ![i].out = st.out \o pulled.bytes]
                 /\ a_cursor' = pulled.cursor
                 /\ a_ret' = MakeArRet("read", "value", read_bytes, i)
            ELSE /\ UNCHANGED <<a_streams, a_cursor>>
                 /\ a_ret' = MakeArRet("read", "undefined", 0, i)
    /\ UNCHANGED <<a_src, a_refs, a_freed, arOff>>

\* a seek that skips forward by reading
ArSeek_skip(i, offset, relative) ==
    /\ a_streams[i].state = "open"
    /\ LET st == a_streams[i]
           to == Min(Len(ArContent(st.path)),
                     IF relative THEN st.iter_pos + offset ELSE offset)
       IN  IF to >= st.iter_pos
            THEN /\ a_streams' = [a_streams EXCEPT ![i].iter_pos = to]
                 /\ a_ret' = MakeArRet("seek", "value", to, <<i, offset, relative>>)
            ELSE /\ a_streams' = a_streams
                 /\ a_ret' = MakeArRet("seek", "throw", "bad_vfs_operation",
                                       <<i, offset, relative>>)
    /\ UNCHANGED <<a_src, a_refs, a_freed, arRest>>

\* archive_stream::seek(offset, relative): throw bad_vfs_operation()
ArSeek(i, offset, relative) ==
    /\ a_streams[i].state = "open"
    /\ a_ret' = MakeArRet("seek", "throw", "bad_vfs_operation", <<i, offset, relative>>)
    /\ UNCHANGED <<a_src, a_refs, a_freed, a_streams, arRest>>

\* archive_stream::tell(): return iter_pos_
ArTell(i) ==
    /\ a_streams[i].state = "open"
    /\ a_ret' = MakeArRet("tell", "value", a_streams[i].iter_pos, i)
    /\ UNCHANGED <<a_src, a_refs, a_freed, a_streams, arRest>>

\* a destructor that lets go of owned_state_ first and frees the iterator
\* state after it
ArStreamReset_owners_first(i) ==
    /\ a_streams[i].state = "open"
    /\ a_streams' = [a_streams EXCEPT ![i].state = "destroyed"]
    /\ DropOwner
    /\ a_ret' = MakeArRet("iter_free",
                          IF a_refs.archive > 1 THEN "value" ELSE "undefined", 0, i)
    /\ UNCHANGED <<a_src, arRest>>

\* ~archive_stream, its body: iter_state_.reset()
ArStreamReset(i) ==
    /\ a_streams[i].state = "open"
    /\ a_streams' = [a_streams EXCEPT ![i].state = "closing"]
    /\ a_ret' = MakeArRet("iter_free", IF ArBacked THEN "value" ELSE "undefined", 0, i)
    /\ UNCHANGED <<a_src, a_refs, a_freed, arRest>>

\* ~archive_stream, its members: owned_state_ drops the two shared_ptrs
ArStreamDrop(i) ==
    /\ a_streams[i].state = "closing"
    /\ a_streams' = [a_streams EXCEPT ![i].state = "destroyed"]
    /\ DropOwner
    /\ UNCHANGED <<a_src, a_ret, arRest>>

\* ~archive_file_source (unregister_scheme, a rejected register_scheme, ~vfs):
\* state_ is deleted and drops its two shared_ptrs
ArDestroySource ==
    /\ a_src = "alive"
    /\ a_src' = "destroyed"
    /\ DropOwner
    /\ UNCHANGED <<a_streams, a_ret, arRest>>

\* archive_file_source::valid(): return !!state_->archive
archive_file_source_valid == a_archive.ptr # "null"

ArValid ==
    /\ a_src = "alive"
    /\ a_ret' = MakeArRet("valid", "value", archive_file_source_valid, 0)
    /\ UNCHANGED <<a_src, a_refs, a_freed, a_streams, arRest>>

\* vfs::register_scheme(scheme, std::move(source)) on a registry without the
\* scheme: a source that is not valid is not stored, and dies with the call
ArRegister ==
    /\ a_src = "alive"
    /\ LET source == IF archive_file_source_valid THEN "ar1" ELSE "ar_bad"
           r == register_scheme(EmptyMap, 0, source)
       IN  /\ a_ret' = MakeArRet("register_scheme", "value", r.result, source)
           /\ IF r.result
                THEN UNCHANGED <<a_src, a_refs, a_freed>>
                ELSE a_src' = "destroyed" /\ DropOwner
    /\ UNCHANGED <<a_streams, arRest>>

\* a name with its letters in lower case
LowerCase(path) == IF path = "A.TXT" THEN "a.txt" ELSE path

\* mz_zip_reader_locate_file(archive, name, NULL, flags): the index of the
\* entry with this name, compared exactly under MZ_ZIP_FLAG_CASE_SENSITIVE and
\* without regard to case otherwise; -1 without an archive or without such an
\* entry
mz_zip_reader_locate_file(archive, path, case_sensitive) ==
    LET name == IF case_sensitive THEN path ELSE LowerCase(path)
    IN  IF archive # "null" /\ name \in ArEntries
            THEN CHOOSE n \in 0 .. Cardinality(ArEntries) - 1 : TRUE
            ELSE 0 - 1

\* an exists that does not pass MZ_ZIP_FLAG_CASE_SENSITIVE
archive_file_source_exists_nocase(path) ==
    (0 - 1) # mz_zip_reader_locate_file(a_archive.ptr, path, FALSE)

\* archive_file_source::exists(path)
archive_file_source_exists(path) ==
    (0 - 1) # mz_zip_reader_locate_file(a_archive.ptr, path, TRUE)

ArExists(path) ==
    /\ a_src = "alive"
    /\ a_ret' = MakeArRet("exists", "value", archive_file_source_exists(path), path)
    /\ UNCHANGED <<a_src, a_refs, a_freed, a_streams, arRest>>

\* mz_zip_reader_extract_file_to_heap(archive, name, &size,
\* MZ_ZIP_FLAG_CASE_SENSITIVE): the entry's bytes in a heap block (mem is
\* whether the block is non-null), pulled through archive_reader_
mz_zip_reader_extract_file_to_heap(archive, cursor, path) ==
    IF archive # "null" /\ path \in ArIntact
        THEN LET pulled == archive_reader_(cursor, ArOffset(path), Len(ArContent(path)))
             IN  [mem |-> TRUE, bytes |-> pulled.bytes, size |-> Len(ArContent(path)),
                  cursor |-> pulled.cursor]
        ELSE [mem |-> FALSE, bytes |-> << >>, size |-> 0, cursor |-> cursor]

MakeLoaded(buffer, ok) == [buffer |-> buffer, ok |-> ok]

\* a load that tells success by the buffer not being empty
archive_file_source_load_nonempty(path) ==
    LET heap == mz_zip_reader_extract_file_to_heap(a_archive.ptr, a_cursor, path)
    IN  MakeLoaded(SubSeq(heap.bytes, 1, heap.size), heap.size > 0)

\* archive_file_source::load(path):
\* mem ? make_pair(buffer(mem, mem_size), true) : make_pair(buffer(), false)
archive_file_source_load(path) ==
    LET heap == mz_zip_reader_extract_file_to_heap(a_archive.ptr, a_cursor, path)
    IN  IF heap.mem
            THEN MakeLoaded(SubSeq(heap.bytes, 1, heap.size), TRUE)
            ELSE MakeLoaded(<< >>, FALSE)

ArLoad(path) ==
    /\ a_src = "alive"
    /\ a_ret' = MakeArRet("load", "value", archive_file_source_load(path), path)
    /\ a_cursor' = mz_zip_reader_extract_file_to_heap(a_archive.ptr, a_cursor,
                                                       path).cursor
    /\ UNCHANGED <<a_src, a_refs, a_freed, a_streams, arOff>>

ArWrite(path, append) ==
    /\ a_src = "alive"
    /\ a_ret' = MakeArRet("write", "value", archive_file_source_write(path, append),
                          path)
    /\ UNCHANGED <<a_src, a_refs, a_freed, a_streams, arRest>>

\* archive_stream::length(): iter_state_->file_stat.m_uncomp_size
ArLength(i) ==
    /\ a_streams[i].state = "open"
    /\ a_ret' = MakeArRet("length", "value", Len(ArContent(a_streams[i].path)), i)
    /\ UNCHANGED <<a_src, a_refs, a_freed, a_streams, arRest>>

ArOffsets == {0 - 1, 1}

NextArchive ==
    \/ ArValid
    \/ ArRegister
    \/ \E path \in ArPaths : ArExists(path)
    \/ \E path \in ArPaths : ArLoad(path)
    \/ \E append \in BOOLEAN : ArWrite("a.txt", append)
    \/ \E i \in DOMAIN a_streams : ArLength(i)
    \/ \E path \in ArPaths \ {"empty.txt"} : ArOpen(path)
    \/ \E i \in DOMAIN a_streams, size \in 1 .. 2 : ArRead(i, size)
    \/ \E i \in DOMAIN a_streams, offset \in ArOffsets, relative \in BOOLEAN :
            ArSeek(i, offset, relative)
    \/ \E i \in DOMAIN a_streams : ArTell(i)
    \/ \E i \in DOMAIN a_streams : ArStreamReset(i)
    \/ \E i \in DOMAIN a_streams : ArStreamDrop(i)
    \/ ArDestroySource

SpecArchive == Init /\ [][NextArchive]_vars

\* the same source, constructed from any input: a zip archive, a stream that
\* is no zip archive, or no stream; calloc may fail
InitSource ==
    /\ InitRegistry
    /\ InitHist
    /\ InitFs
    /\ InitReaders
    /\ \E stream \in ArInputs, alloc_ok \in BOOLEAN : InitArchive(stream, alloc_ok)

SpecSource == InitSource /\ [][NextArchive]_vars

\* C17 (as stated): open of an entry that is missing or cannot be extracted
\* signals the operation error to its caller.
C17_OpenFailsLoudly ==
    a_ret.op = "open" /\ a_ret.arg \notin ArIntact => a_ret.kind = "throw"

\* C17 (amended): archive_file_source::open never lets an error out: for an
\* entry that is missing or cannot be extracted the archive_stream constructor
\* throws the operation error, open catches it and returns the empty stream
\* handle (no stream is created and the handles' use counts are as before);
\* for an intact entry it returns a stream.
C17_OpenFailsSoftly ==
    /\ a_ret.op = "open" =>
        /\ a_ret.kind = "value"
        /\ a_ret.val = IF a_ret.arg \in ArIntact THEN "stream" ELSE "empty_stream"
    /\ \A path \in ArPaths :
        path \notin ArIntact => archive_stream(path).kind = "throw"
    /\ a_refs.archive = (IF a_src = "alive" THEN 1 ELSE 0)
            + Cardinality({i \in DOMAIN a_streams : a_streams[i].state # "destroyed"})
    /\ \A i \in DOMAIN a_streams : a_streams[i].path \in ArIntact

\* open of the entry that cannot be extracted has returned, with a stream of
\* the intact entry open beside it
C17_Witness ==
    /\ a_ret.op = "open" /\ a_ret.arg = "bad.txt"
    /\ Len(a_streams) = 1 /\ a_streams[1].state = "open"

\* a step that is a call of seek
SeekCalled == a_ret'.op = "seek" /\ a_ret' # a_ret

\* what seek leaves alone: every stream's position and state (hence tell and
\* the bytes still to be read), the handles and the source
C18_SeekFrame ==
    SeekCalled =>
        /\ a_ret'.kind = "throw" /\ a_ret'.val = "bad_vfs_operation"
        /\ UNCHANGED <<a_streams, a_refs, a_freed, a_src>>

\* a tell that follows a seek returns the position the stream has
C18_TellAfterSeek ==
    /\ a_ret.op = "seek" => a_ret.kind = "throw"
    /\ a_ret.op = "tell" =>
        a_ret.kind = "value" /\ a_ret.val = a_streams[a_ret.arg].iter_pos

\* C18: seek on an archive extraction stream fails with the operation error
\* for every offset, relative or absolute, and changes neither the stream's
\* position (tell) nor the data still to be read.
C18_SeekAlwaysFails ==
    [] C18_TellAfterSeek /\ [][C18_SeekFrame]_vars

\* a relative seek forward was tried on a stream read halfway
C18_Witness ==
    /\ a_ret.op = "seek"
    /\ a_ret.arg[2] = 1 /\ a_ret.arg[3] = TRUE
    /\ a_streams[a_ret.arg[1]].iter_pos = 1

\* the archive (mz_zip_archive) and the backing input stream are each owned by
\* the source, while alive, and by every stream not yet destroyed
ArOwners ==
    (IF a_src = "alive" THEN 1 ELSE 0)
    + Cardinality({i \in DOMAIN a_streams : a_streams[i].state # "destroyed"})

\* C19: the archive and the backing stream are released only when their last
\* owner is gone, and once: a stream that is still open keeps both alive also
\* after the archive source was destroyed, and every read on it is served.
C19_StreamKeepsArchiveAlive ==
    /\ \A k \in DOMAIN a_refs :
        /\ a_refs[k] = ArOwners
        /\ a_freed[k] = IF ArOwners = 0 THEN 1 ELSE 0
    /\ (\E i \in DOMAIN a_streams : a_streams[i].state # "destroyed") => ArBacked
    /\ a_ret.op \in {"read", "iter_free"} => a_ret.kind = "value"

\* the source is destroyed, and a read on a stream opened before that has
\* returned the entry's remaining bytes
C19_Witness ==
    /\ a_src = "destroyed"
    /\ a_ret.op = "read" /\ a_ret.val = 2
    /\ a_streams[a_ret.arg].state = "open"
    /\ a_streams[a_ret.arg].iter_pos = Len(ArContent(a_streams[a_ret.arg].path))

\* thread t's write has come back from the source's write
WriteReturned(t) ==
    call[t].op = "write" /\ pc[t] = "unlock" /\ ret[t].source # NullSource

C20_WriteResult ==
    \A t \in Threads :
        WriteReturned(t) /\ SourceKind(ret[t].source) = "archive"
            => ret[t].kind = "value" /\ ret[t].val = "empty_stream"

\* a write call, from its start to the source's return, leaves the scheme map,
\* the alias map and the archive as they are
C20_WriteFrame ==
    (\E t \in Threads : call'[t].op = "write" /\ pc'[t] \in {"io", "unlock"})
        => UNCHANGED <<aliases, schemes, arVars>>

\* C20: archive_file_source::write returns the empty handle for every path and
\* append flag, so vfs::write on a url that resolves to an archive-backed
\* scheme returns the empty handle, and changes neither the archive nor the
\* registry.
C20_ArchiveWriteFails ==
    [] C20_WriteResult /\ [][C20_WriteFrame]_vars

\* a write through an alias has reached the archive source and come back
C20_Witness ==
    \E t \in Threads :
        /\ WriteReturned(t)
        /\ ret[t].source = "ar1"
        /\ ret[t].path = <<"base">> \o FilePath
        /\ ret[t].val = "empty_stream"

----------------------------------------------------------------------------
(* The archive source as a whole: construction, valid, and the four methods *)

\* the source was constructed from no stream, or from a stream that is no zip
\* archive
InvalidInput == a_archive.from \in {"null", "garbage"}

\* C21: an archive source built from a null stream or from a stream whose
\* central directory does not parse is constructed without an error and has no
\* archive for the rest of its life: valid() is false, register_scheme rejects
\* (and destroys) it, exists is false, open returns the empty handle and makes
\* no stream, load returns (empty, false), write returns the empty handle.
C21_InvalidSourceSoftFails ==
    /\ a_ret.op = "archive_file_source" => a_ret.kind = "value"
    /\ InvalidInput =>
        /\ ~archive_file_source_valid
        /\ a_streams = << >>
        /\ a_ret.kind = "value"
        /\ a_ret.op = "valid" => a_ret.val = FALSE
        /\ a_ret.op = "register_scheme" => a_ret.val = FALSE /\ a_src = "destroyed"
        /\ a_ret.op = "exists" => a_ret.val = FALSE
        /\ a_ret.op = "open" => a_ret.val = "empty_stream"
        /\ a_ret.op = "load" => a_ret.val = MakeLoaded(<< >>, FALSE)
        /\ a_ret.op = "write" => a_ret.val = "empty_stream"

\* a source made from a stream that is no zip archive was asked to load the
\* name of an entry
C21_Witness ==
    /\ a_archive.from = "garbage" /\ a_refs.stream = 1
    /\ a_ret.op = "load" /\ a_ret.arg = "a.txt"

----------------------------------------------------------------------------
(* SpecFs: exists, load and write through the facade, on a registry with a
   filesystem source, an archive source and a scheme nobody registered; one
   caller, so the mutex is left out *)

MaxBytes == 2
Bytes == {"h", "i"}

\* the registry: scheme 0 is the filesystem source, scheme 1 the archive
\* source, scheme 2 has no source
FsSchemes == [x \in 0 .. 1 |-> IF x = 0 THEN "fs1" ELSE "ar1"]
FsUrls ==
    {MakeUrl(0, <<n>>) : n \in FsNames}
        \cup {MakeUrl(1, <<n>>) : n \in {"a.txt", "empty.txt", "bad.txt"}}
        \cup {MakeUrl(2, <<"new.txt">>)}

\* the path as the string the backend is handed (the paths of this
\* specification are single names)
PathStr(path) == path[1]

\* filesystem::file_exists: the path has attributes, and not a directory's
file_exists(files, name) ==
    files[name].kind # "none" /\ ~(files[name].kind = "dir")

\* filesystem_file_source::exists(path)
filesystem_file_source_exists(name) == file_exists(f_files, name)

\* filesystem::try_read_all(buf, path): the whole file into buf, and whether
\* that worked
try_read_all(files, name) ==
    IF files[name].kind = "file"
        THEN [ok |-> TRUE, buf |-> files[name].bytes]
        ELSE [ok |-> FALSE, buf |-> << >>]

\* filesystem_file_source::load(path):
\* try_read_all(buf, path) ? make_pair(move(buf), true) : make_pair(buffer(), false)
filesystem_file_source_load(name) ==
    LET r == try_read_all(f_files, name)
    IN  IF r.ok THEN MakeLoaded(r.buf, TRUE) ELSE MakeLoaded(<< >>, FALSE)

\* make_write_file(path, append): opens the file for writing, creating it when
\* it is not there and emptying it unless append; nullptr when it cannot be
\* opened
make_write_file(files, name, append) ==
    IF files[name].kind = "dir"
        THEN [stream |-> FALSE, files |-> files]
        ELSE [stream |-> TRUE,
              files |-> [files EXCEPT ![name] =
                            MakeFile("file",
                                     IF append /\ files[name].kind = "file"
                                        THEN files[name].bytes ELSE << >>)]]

\* a write that asks for appending whatever its flag says
filesystem_file_source_write_append(name, append) ==
    make_write_file(f_files, name, TRUE)

\* filesystem_file_source::write(path, append)
filesystem_file_source_write(name, append) == make_write_file(f_files, name, append)

\* the fallback_result of exists, load and write, as values
fallback_value(op) ==
    CASE op = "exists" -> FALSE
      [] op = "load"   -> MakeLoaded(<< >>, FALSE)
      [] op = "write"  -> "empty_stream"

\* vfs::exists(url)
FsExists(url) ==
    /\ LET r == with_file_source(aliases, schemes, "exists", url)
       IN  f_ret' = MakeFsRet("exists", url, "value",
                IF r.kind = "invoke"
                    THEN IF SourceKind(r.source) = "filesystem"
                            THEN filesystem_file_source_exists(PathStr(r.path))
                            ELSE archive_file_source_exists(PathStr(r.path))
                    ELSE fallback_value("exists"))
    /\ UNCHANGED <<f_files, f_out, a_cursor, fsOff>>

\* vfs::load(url)
FsLoad(url) ==
    /\ LET r == with_file_source(aliases, schemes, "load", url)
           archive == r.kind = "invoke" /\ SourceKind(r.source) = "archive"
       IN  /\ f_ret' = MakeFsRet("load", url, "value",
                    IF r.kind = "invoke"
                        THEN IF archive
                                THEN archive_file_source_load(PathStr(r.path))
                                ELSE filesystem_file_source_load(PathStr(r.path))
                        ELSE fallback_value("load"))
           /\ a_cursor' = IF archive
                            THEN mz_zip_reader_extract_file_to_heap(
                                    a_archive.ptr, a_cursor, PathStr(r.path)).cursor
                            ELSE a_cursor
    /\ UNCHANGED <<f_files, f_out, fsOff>>

\* vfs::write(url, append); the stream returned before goes out of use
FsWrite(url, append) ==
    /\ LET r == with_file_source(aliases, schemes, "write", url)
           name == PathStr(r.path)
       IN  IF r.kind = "invoke" /\ SourceKind(r.source) = "filesystem"
            THEN LET w == filesystem_file_source_write(name, append)
                 IN  /\ f_files' = w.files
                     /\ f_out' = IF w.stream
                                    THEN [name |-> name, state |-> "open",
                                          append |-> append, written |-> << >>]
                                    ELSE NoOut
                     /\ f_ret' = MakeFsRet("write", url, "value",
                                    IF w.stream THEN "stream" ELSE "empty_stream")
            ELSE /\ f_ret' = MakeFsRet("write", url, "value",
                                IF r.kind = "invoke"
                                    THEN archive_file_source_write(name, append)
                                    ELSE fallback_value("write"))
                 /\ UNCHANGED <<f_files, f_out>>
    /\ UNCHANGED <<a_cursor, fsOff>>

\* output_stream::write of one byte on the stream write returned: the byte
\* goes to the end of the file
FsStreamWrite(b) ==
    /\ f_out.state = "open"
    /\ Len(f_files[f_out.name].bytes) < MaxBytes
    /\ f_files' = [f_files EXCEPT ![f_out.name].bytes = Append(@, b)]
    /\ f_out' = [f_out EXCEPT !.written = Append(@, b)]
    /\ UNCHANGED <<f_ret, a_cursor, fsOff>>

\* the output stream is destroyed
FsStreamClose ==
    /\ f_out.state = "open"
    /\ f_out' = [f_out EXCEPT !.state = "closed"]
    /\ UNCHANGED <<f_files, f_ret, a_cursor, fsOff>>

InitFsRegistry ==
    /\ aliases = EmptyMap
    /\ schemes = FsSchemes
    /\ mutex = NoThread
    /\ pc = [t \in Threads |-> "idle"]
    /\ call = [t \in Threads |-> NoCall]
    /\ ret = [t \in Threads |-> NoRet]
    /\ queue = << >>
    /\ running = NoTask
    /\ c_cfg = [n |-> 0, tail |-> "none"]
    /\ c_in = NoUrl
    /\ c_url = NoUrl
    /\ c_level = 0
    /\ c_pc = "off"
    /\ c_lookups = 0

NextFs ==
    \/ \E url \in FsUrls : FsExists(url)
    \/ \E url \in FsUrls : FsLoad(url)
    \/ \E url \in FsUrls, append \in BOOLEAN : FsWrite(url, append)
    \/ \E b \in Bytes : FsStreamWrite(b)
    \/ FsStreamClose

\* a vfs with both sources registered, nothing read or written yet
InitSpecFs == InitFsRegistry /\ InitExt

SpecFs == InitSpecFs /\ [][NextFs]_vars

\* what a load of url has to find for it to succeed, and the bytes it then
\* returns
OnSource(url, kind) ==
    url.scheme \in DOMAIN FsSchemes /\ SourceKind(FsSchemes[url.scheme]) = kind
LoadFinds(files, url) ==
    \/ OnSource(url, "filesystem") /\ files[PathStr(url.path)].kind = "file"
    \/ OnSource(url, "archive") /\ PathStr(url.path) \in ArIntact
LoadBytes(files, url) ==
    IF OnSource(url, "filesystem")
        THEN files[PathStr(url.path)].bytes
        ELSE ArContent(PathStr(url.path))

\* a step that is a call of load
LoadCalled == f_ret'.op = "load" /\ f_ret' # f_ret

\* the flag is true exactly when the file or entry was there and could be
\* read, and the buffer then holds its bytes, however few
C22_LoadStep ==
    LoadCalled =>
        /\ f_ret'.kind = "value"
        /\ f_ret'.val.ok = LoadFinds(f_files, f_ret'.url)
        /\ f_ret'.val.ok => f_ret'.val.buffer = LoadBytes(f_files, f_ret'.url)

\* every failure comes with the empty buffer
C22_FailureIsEmpty ==
    f_ret.op = "load" =>
        /\ ~f_ret.val.ok => f_ret.val.buffer = << >>
        /\ f_ret.url.scheme \notin DOMAIN FsSchemes
                => f_ret.val = MakeLoaded(<< >>, FALSE)
        /\ OnSource(f_ret.url, "archive") /\ f_ret.url.path = <<"bad.txt">>
                => f_ret.val = MakeLoaded(<< >>, FALSE)
        /\ OnSource(f_ret.url, "archive") /\ f_ret.url.path = <<"empty.txt">>
                => f_ret.val = MakeLoaded(<< >>, TRUE)

\* C22: load tells success by the flag, not by the buffer: a file or an archive
\* entry that exists and has no bytes loads as (empty, true), every failure
\* (no source for the scheme, no such file, a directory, an entry that cannot
\* be extracted) as (empty, false).
C22_FlagTellsSuccess ==
    [] C22_FailureIsEmpty /\ [][C22_LoadStep]_vars

\* the archive's zero-length entry was loaded with success, while the file
\* system holds a zero-length file
C22_Witness ==
    /\ f_ret.op = "load"
    /\ OnSource(f_ret.url, "archive") /\ f_ret.url.path = <<"empty.txt">>
    /\ f_ret.val = MakeLoaded(<< >>, TRUE)
    /\ f_files["new.txt"] = MakeFile("file", << >>)

\* the bytes B written so far through the stream that write(url, false)
\* returned last, open or closed, and the url it was opened on
Written == f_out.state # "none" /\ ~f_out.append
WrittenUrl == MakeUrl(0, <<f_out.name>>)

\* what the source's load and exists give for the written file
C23_FileHoldsWritten ==
    Written =>
        /\ filesystem_file_source_load(f_out.name) = MakeLoaded(f_out.written, TRUE)
        /\ filesystem_file_source_exists(f_out.name)

\* a load or an exists of the written url, through the facade
C23_ReadBackStep ==
    /\ LoadCalled /\ Written /\ f_ret'.url = WrittenUrl
            => f_ret'.val = MakeLoaded(f_out.written, TRUE)
    /\ f_ret'.op = "exists" /\ f_ret' # f_ret /\ Written /\ f_ret'.url = WrittenUrl
            => f_ret'.val = TRUE

\* C23: whatever bytes B were written through the stream that
\* write(url, append = false) returned for a url of the filesystem source, load
\* of the same url returns (B, true) and exists of it returns true.
C23_RoundTrip ==
    [] C23_FileHoldsWritten /\ [][C23_ReadBackStep]_vars

\* two bytes were written through a stream that emptied the file, and load
\* has returned them
C23_Witness ==
    /\ Written /\ f_out.written = <<"h", "i">>
    /\ f_ret.op = "load" /\ f_ret.url = WrittenUrl
    /\ f_ret.val = MakeLoaded(<<"h", "i">>, TRUE)

----------------------------------------------------------------------------
(* The archive's entries as exists, load and the streams show them
   (SpecArchive) *)

\* stream i has handed out all there is
Drained(i) == Len(a_streams[i].out) = Len(ArContent(a_streams[i].path))

\* C24 (as stated): every entry of the central directory exists, loads with
\* success and opens as a stream.
C24_EveryEntryLoads ==
    /\ a_ret.op = "exists" /\ a_ret.arg \in ArEntries => a_ret.val = TRUE
    /\ a_ret.op = "load" /\ a_ret.arg \in ArEntries
            => a_ret.val = MakeLoaded(ArContent(a_ret.arg), TRUE)
    /\ a_ret.op = "open" /\ a_ret.arg \in ArEntries => a_ret.val = "stream"

\* C24 (amended): exists is true exactly for the names in the central
\* directory, compared case-sensitively; for every entry whose data can be
\* extracted, load returns (content, true), the stream open returns has
\* length() equal to the content's size and, read until a read returns no
\* byte, has handed out exactly the bytes load returns; an entry that is listed
\* but cannot be extracted, like a name that is not listed or differs in case,
\* loads as (empty, false) and opens as the empty handle.
C24_ArchiveFidelity ==
    /\ a_ret.op = "exists" => a_ret.val = (a_ret.arg \in ArEntries)
    /\ a_ret.op = "load" =>
            a_ret.val = IF a_ret.arg \in ArIntact
                            THEN MakeLoaded(ArContent(a_ret.arg), TRUE)
                            ELSE MakeLoaded(<< >>, FALSE)
    /\ a_ret.op = "open" =>
            a_ret.val = IF a_ret.arg \in ArIntact THEN "stream" ELSE "empty_stream"
    /\ a_ret.op = "length" =>
            a_ret.val = Len(archive_file_source_load(a_streams[a_ret.arg].path).buffer)
    /\ a_ret.op = "read" /\ a_ret.val = 0 => Drained(a_ret.arg)
    /\ \A i \in DOMAIN a_streams :
            LET loaded == archive_file_source_load(a_streams[i].path)
            IN  /\ loaded.ok
                /\ Len(a_streams[i].out) <= Len(loaded.buffer)
                /\ a_streams[i].out = SubSeq(loaded.buffer, 1, Len(a_streams[i].out))
                /\ Drained(i) => a_streams[i].out = loaded.buffer

\* a stream of "a.txt" was read until a read returned no byte, beside an
\* undrained stream of another entry
C24_Witness ==
    /\ a_ret.op = "read" /\ a_ret.val = 0
    /\ a_streams[a_ret.arg].path = "a.txt"
    /\ a_streams[a_ret.arg].out = <<"h", "i">>
    /\ \E i \in DOMAIN a_streams : a_streams[i].path = "b.txt" /\ ~Drained(i)

----------------------------------------------------------------------------
(* Multi-hop resolution (SpecChain) *)

\* a step of resolve_url that follows an alias: the recursive call is made
ChainHop ==
    c_pc = "running" /\ c_pc' = "running" /\ c_url.scheme \in DOMAIN aliases

\* the hop takes the alias target's scheme, puts the target's path in front of
\* the path so far, and makes the depth one more
C25_HopStep ==
    ChainHop =>
        /\ c_url'.scheme = aliases[c_url.scheme].scheme
        /\ c_url'.path = aliases[c_url.scheme].path \o c_url.path
        /\ c_level' = c_level + 1

\* after k hops along the chain the resolver is at scheme k, with the paths of
\* the k aliases in front of the url's path, the last hop's first
C25_AfterHops ==
    (c_pc \notin {"idle", "off"} /\ c_level <= c_cfg.n)
        => c_url = MakeUrl(c_level, ChainPath(c_level, c_in.path))

\* C25: each hop of a multi-hop resolution replaces the scheme by the alias
\* target's and prepends the target's path to the path accumulated so far
\* (A -> B:b, B -> C:c resolves A:x to C:c/b/x), and the depth grows by exactly
\* one per hop.
C25_MultiHop ==
    [] C25_AfterHops /\ [][C25_HopStep]_vars

\* three hops were followed: 0 -> 1:base, 1 -> 2:(empty), 2 -> 3:sub
C25_Witness ==
    /\ c_pc = "returned"
    /\ c_cfg = [n |-> 3, tail |-> "end"]
    /\ c_level = 3
    /\ c_in = MakeUrl(0, FilePath)
    /\ c_url = MakeUrl(3, <<"sub", "base">> \o FilePath)

----------------------------------------------------------------------------
(* One registry state per facade call (SpecLock) *)

\* thread t is inside the body of exists, open, load or write: the url is
\* resolved and the source looked up, the source's method runs or has returned
InFacade(t) ==
    call[t].op \in {"exists", "open", "load", "write"} /\ pc[t] \in {"io", "unlock"}

\* what the call of t has resolved and matched is what the registry, as it is
\* now, resolves and matches
C26_OneRegistryState ==
    \A t \in Threads :
        InFacade(t) =>
            /\ mutex = t
            /\ LET r == with_file_source(aliases, schemes, call[t].op, call[t].url)
               IN  IF ret[t].source = NullSource
                    THEN ret[t] = r
                    ELSE /\ r.kind = "invoke"
                         /\ r.source = ret[t].source
                         /\ r.path = ret[t].path

\* no step taken while a facade call is in its body changes the registry
C26_RegistryFrame ==
    (\E t \in Threads : InFacade(t)) => UNCHANGED <<aliases, schemes>>

\* C26: exists, open, load and write hold the registry mutex from before the
\* url is resolved until the source's method has returned, so resolution,
\* lookup and dispatch see one registry state: a register or unregister (of a
\* scheme or an alias) called by another thread meanwhile stays blocked on the
\* mutex and takes effect only after the call.
C26_FacadeHoldsMutex ==
    [] C26_OneRegistryState /\ [][C26_RegistryFrame]_vars

\* a load through an alias runs in the filesystem source of scheme 0, while
\* another thread's unregister_scheme(0) is blocked on the mutex
C26_Witness ==
    \E t, u \in Threads :
        /\ pc[t] = "io" /\ call[t].op = "load" /\ ret[t].source = "fs1"
        /\ call[t].url.scheme \in DOMAIN aliases
        /\ pc[u] = "wait" /\ call[u].op = "unregister_scheme"
        /\ call[u].name \in DOMAIN schemes

----------------------------------------------------------------------------
(* The position of an extraction stream (SpecArchive) *)

\* length() of stream i
StreamLength(i) == Len(ArContent(a_streams[i].path))

\* by how much a step advances the position of stream i
Advance(i) == a_streams'[i].iter_pos - a_streams[i].iter_pos

\* the position of a stream is the number of bytes handed out by its reads, at
\* most length() and, once the stream is drained, length(); tell returns it
C27_TellWithinLength ==
    /\ \A i \in DOMAIN a_streams :
        /\ a_streams[i].iter_pos = Len(a_streams[i].out)
        /\ a_streams[i].iter_pos <= StreamLength(i)
        /\ Drained(i) => a_streams[i].iter_pos = StreamLength(i)
    /\ a_ret.op = "tell" => a_ret.val = a_streams[a_ret.arg].iter_pos
    /\ a_ret.op = "length" => a_ret.val = StreamLength(a_ret.arg)
    /\ a_ret.op = "read" /\ a_ret.val = 0
            => a_streams[a_ret.arg].iter_pos = StreamLength(a_ret.arg)

\* a new stream starts at 0; the position moves only in a read, by the count
\* the read returns, and never back; the entry of a stream, and with it
\* length(), stays
C27_PositionStep ==
    \A i \in DOMAIN a_streams' :
        IF i \in DOMAIN a_streams
            THEN /\ a_streams'[i].path = a_streams[i].path
                 /\ Advance(i) >= 0
                 /\ Advance(i) > 0 =>
                        a_ret'.op = "read" /\ a_ret'.arg = i /\ a_ret'.val = Advance(i)
                 /\ a_ret' # a_ret /\ a_ret'.op = "read" /\ a_ret'.arg = i
                        => a_ret'.val = Advance(i)
            ELSE a_streams'[i].iter_pos = 0

\* C27: tell() of an archive extraction stream is 0 after open and is always
\* the sum of the counts its reads returned; it never decreases, never exceeds
\* length(), and equals length() once the stream is drained; length() never
\* changes.
C27_TellCountsReads ==
    [] C27_TellWithinLength /\ [][C27_PositionStep]_vars

\* tell was called on a stream that reads have drained
C27_Witness ==
    /\ a_ret.op = "tell" /\ a_ret.val = 2
    /\ a_streams[a_ret.arg].path = "a.txt"
    /\ Drained(a_ret.arg)

----------------------------------------------------------------------------
(* Several streams on one archive (SpecArchive) *)

\* every stream has been handed the first bytes of its own entry, as many as
\* its position says
C28_OwnBytes ==
    \A i \in DOMAIN a_streams :
        a_streams[i].out = SubSeq(ArContent(a_streams[i].path), 1, a_streams[i].iter_pos)

\* a step changes the position and the bytes of one stream at most: a read on
\* one stream leaves every other stream's tell() as it was
C28_ReadFrame ==
    \A i, j \in DOMAIN a_streams :
        (i # j /\ a_streams'[i] # a_streams[i]) => a_streams'[j] = a_streams[j]

\* C28: extraction streams opened on one archive have independent positions:
\* the pull-reader seeks the backing stream to an absolute offset before every
\* read, so however the reads of two streams follow one another (one at a
\* time), each stream is handed exactly the bytes of its own entry, and a read
\* on one stream does not change the other's tell().
C28_IndependentCursors ==
    [] C28_OwnBytes /\ [][C28_ReadFrame]_vars

\* a stream of "a.txt" has just read its first byte, after a stream of "b.txt"
\* had read its byte and left the backing stream behind the data of "b.txt"
C28_Witness ==
    \E i, j \in DOMAIN a_streams :
        /\ a_streams[i].path = "a.txt" /\ a_streams[i].out = <<"h">>
        /\ a_streams[j].path = "b.txt" /\ a_streams[j].out = <<"x">>
        /\ a_ret.op = "read" /\ a_ret.arg = i /\ a_ret.val = 1
        /\ a_cursor = ArOffset("a.txt") + 1

----------------------------------------------------------------------------
(* SpecReaders: the worker of load_async drains an archive stream while a
   caller thread loads from the same archive; archive_reader_ is two steps,
   the seek and the read, on the one backing stream *)

\* vfs::load_async(url) for an entry of the archive: open(url) runs on the
\* caller's thread under the registry mutex and makes the stream, the task is
\* handed to the worker, and load_async returns
RdLoadAsync(path) ==
    /\ r_pc["caller"] = "idle" /\ r_pc["worker"] \in {"none", "done"}
    /\ mutex = NoThread
    /\ r_pc' = [r_pc EXCEPT !["worker"] = "ready"]
    /\ r_req' = [r_req EXCEPT !["worker"] = MakeReq(path, ArOffset(path), 0)]
    /\ r_out' = [r_out EXCEPT !["worker"] = << >>]
    /\ a_cursor' = archive_reader_(a_cursor, ArOffset(path), 0).cursor
    /\ UNCHANGED <<mutex, rdOff>>

\* the worker, in try_read_tail, calls read(dst, size) on its stream: the
\* iterator asks archive_reader_ for the next bytes of the entry; no mutex is
\* taken.  With nothing left of the entry the task ends.
RdWorkerRead(size) ==
    /\ r_pc["worker"] = "ready"
    /\ LET path == r_req["worker"].path
           left == Len(ArContent(path)) - Len(r_out["worker"])
       IN  IF left > 0
            THEN /\ r_pc' = [r_pc EXCEPT !["worker"] = "call"]
                 /\ r_req' = [r_req EXCEPT !["worker"] =
                                MakeReq(path, ArOffset(path) + Len(r_out["worker"]),
                                        Min(size, left))]
            ELSE /\ r_pc' = [r_pc EXCEPT !["worker"] = "done"]
                 /\ r_req' = r_req
    /\ UNCHANGED <<mutex, a_cursor, r_out, rdOff>>

\* a caller thread calls vfs::load(url) for an entry of the archive: it takes
\* the registry mutex, and archive_file_source::load asks for the whole entry
RdLoad(path) ==
    /\ r_pc["caller"] = "idle"
    /\ mutex = NoThread
    /\ mutex' = "t1"
    /\ r_pc' = [r_pc EXCEPT !["caller"] = "call"]
    /\ r_req' = [r_req EXCEPT !["caller"] =
                    MakeReq(path, ArOffset(path), Len(ArContent(path)))]
    /\ r_out' = [r_out EXCEPT !["caller"] = << >>]
    /\ UNCHANGED <<a_cursor, rdOff>>

\* archive_reader_, first half: seek(pos, false)
RdSeek(r) ==
    /\ r_pc[r] = "call"
    /\ a_cursor' = input_seek(a_cursor, r_req[r].pos)
    /\ r_pc' = [r_pc EXCEPT ![r] = "seeked"]
    /\ UNCHANGED <<mutex, r_req, r_out, rdOff>>

\* archive_reader_, second half: read(dst, size), from where the backing
\* stream stands now
RdRead(r) ==
    /\ r_pc[r] = "seeked"
    /\ LET got == input_read(a_cursor, r_req[r].size)
       IN  /\ a_cursor' = got.cursor
           /\ r_out' = [r_out EXCEPT ![r] = @ \o got.bytes]
           /\ r_pc' = [r_pc EXCEPT ![r] =
                            IF r = "caller" THEN "loaded"
                            ELSE IF got.bytes = << >> THEN "done" ELSE "ready"]
    /\ UNCHANGED <<mutex, r_req, rdOff>>

\* vfs::load returns: the lock_guard goes out of scope
RdReturn ==
    /\ r_pc["caller"] = "loaded"
    /\ mutex' = NoThread
    /\ r_pc' = [r_pc EXCEPT !["caller"] = "idle"]
    /\ UNCHANGED <<a_cursor, r_req, r_out, rdOff>>

NextReaders ==
    \/ \E path \in {"a.txt", "b.txt"} : RdLoadAsync(path)
    \/ \E size \in 1 .. 2 : RdWorkerRead(size)
    \/ \E path \in {"a.txt", "b.txt"} : RdLoad(path)
    \/ \E r \in Readers : RdSeek(r)
    \/ \E r \in Readers : RdRead(r)
    \/ RdReturn

SpecReaders == Init /\ [][NextReaders]_vars

\* C29 (as stated): at most one thread at a time is inside the pull-reader of
\* an archive's backing stream: the seek and the read of one reader are never
\* interleaved with those of another, however the load_async worker's draining
\* and the callers' loads from the same archive are scheduled.
C29_OneReaderAtATime ==
    Cardinality({r \in Readers : r_pc[r] = "seeked"}) <= 1

\* the worker's stream was handed a byte that is not its entry's: the caller's
\* seek came between the worker's seek and its read
C29_Witness ==
    /\ r_req["worker"].path = "a.txt"
    /\ r_out["worker"] # << >>
    /\ r_out["worker"] # SubSeq(ArContent("a.txt"), 1, Len(r_out["worker"]))

----------------------------------------------------------------------------
(* Teardown (SpecArchive) *)

\* the iterator of stream i is live
IterLive(i) == a_streams[i].state = "open"

\* a stream is destroyed in two steps, its iterator state first, against an
\* archive that is still there, its handles to the archive and the backing
\* stream after that; the archive and the backing stream are released in the
\* step that destroys their last owner
C30_TeardownStep ==
    /\ \A i \in DOMAIN a_streams :
        /\ (a_streams'[i].state = "destroyed" /\ a_streams[i].state # "destroyed")
                => a_streams[i].state = "closing"
        /\ (a_streams'[i].state = "closing" /\ IterLive(i))
                => /\ UNCHANGED <<a_refs, a_freed>>
                   /\ a_ret'.op = "iter_free" /\ a_ret'.kind = "value"
    /\ \A k \in DOMAIN a_freed :
        a_freed'[k] # a_freed[k]
            => a_freed[k] = 0 /\ a_freed'[k] = 1 /\ ArOwners = 1 /\ ArOwners' = 0

\* released once at most, not while an iterator is live, and not later than
\* the last owner's destruction
C30_ReleasedOnce ==
    /\ \A k \in DOMAIN a_freed : a_freed[k] <= 1
    /\ (\E i \in DOMAIN a_streams : IterLive(i)) => ArBacked
    /\ ArOwners = 0 => \A k \in DOMAIN a_freed : a_freed[k] = 1

\* C30: when an extraction stream is destroyed its iterator state is freed
\* strictly before the stream drops its handles to the archive and the backing
\* stream; the archive is ended and freed exactly once, when the last of its
\* owners (the source or a stream opened from it) is destroyed, and never while
\* an iterator derived from it is live.
C30_OrderedTeardown ==
    [] C30_ReleasedOnce /\ [][C30_TeardownStep]_vars

\* the source and two streams are destroyed, and the archive was released
C30_Witness ==
    /\ a_src = "destroyed"
    /\ Len(a_streams) = 2
    /\ \A i \in DOMAIN a_streams : a_streams[i].state = "destroyed"
    /\ a_ret.op = "iter_free"
    /\ a_freed.archive = 1 /\ a_freed.stream = 1

----------------------------------------------------------------------------
(* SpecSnapshot: load_async while the schemes and the aliases change *)

\* SpecAsync's calls, and with them loads through the alias 1 -> 0:base, which
\* other callers register and unregister
NextSnapshot ==
    \/ NextAsync
    \/ \E t \in Threads : AsyncLoad(t, MakeUrl(1, FilePath))
    \/ \E t \in Threads : RegisterSchemeAlias(t, 1, MakeUrl(0, <<"base">>))
    \/ \E t \in Threads : UnregisterSchemeAlias(t, 1)

SpecSnapshot == Init /\ [][NextSnapshot]_vars

\* the stream a load_async call holds between its open and its submission
Opening(t) == call[t].op = "load_async" /\ pc[t] \in {"io", "unlock", "submit"}

\* load_async resolves and looks up on the registry as it is when the call is
\* made; the source and the path found then stay with the call and with the
\* task it submits, and no later step changes a submitted task
C31_TaskStep ==
    /\ \A t \in Threads :
        /\ Runs(t, "load_async")
            => ret'[t] = with_file_source(aliases, schemes, "load_async", call'[t].url)
        /\ Opening(t) /\ Opening(t)' /\ ret'[t].val = "stream"
            => ret'[t].source = ret[t].source /\ ret'[t].path = ret[t].path
        /\ pc[t] = "submit" /\ pc'[t] # "submit"
            => /\ Len(futures') = Len(futures) + 1
               /\ futures'[Len(futures')].task = ret[t]
    /\ \A i \in 1 .. Len(futures) :
        Len(futures') >= i /\ futures'[i].task = futures[i].task
    /\ (schemes' # schemes \/ aliases' # aliases)
            => /\ UNCHANGED <<futures, queue, running>>
               /\ \A t \in Threads : Opening(t) => ret'[t] = ret[t]

\* a task that holds an opened stream can be drained to (buffer, true) whatever
\* the registry holds by then, and a task is a stream only if a source opened it
C31_StreamStaysReadable ==
    /\ \A i \in 1 .. Len(futures) :
        futures[i].task.val = "stream" <=> futures[i].task.source # NullSource
    /\ running # NoTask /\ futures[running.id].task.val = "stream"
        => ENABLED (AsyncFinish /\ futures'[running.id].state = "buffer_true")

\* C31: the outcome of load_async(url) is determined by the registry as it is
\* when load_async is called: registering or unregistering schemes or aliases
\* after the call returned and before the worker runs the task changes neither
\* the source and the entry that are read, nor turns a load whose open
\* succeeded into a missing-scheme failure.
C31_SnapshotAtCall ==
    [] C31_StreamStaysReadable /\ [][C31_TaskStep]_vars

\* a stream opened through the alias is queued, or being drained, or drained
\* with success, and neither the alias nor the scheme is registered any more
C31_Witness ==
    /\ schemes = EmptyMap
    /\ aliases = EmptyMap
    /\ \E i \in 1 .. Len(futures) :
        /\ futures[i].task.val = "stream"
        /\ futures[i].task.path = <<"base">> \o FilePath
        /\ futures[i].state = "buffer_true"

----------------------------------------------------------------------------
(* SpecUse: exists, open, load and write on a source, register_scheme and    *)
(* unregister_scheme of its name, one container access per step              *)

SourceOps == {"exists", "open", "load", "write"}

\* the calls of SpecLin's shape on the one name 0: the filesystem source or
\* the archive source is registered, the name is unregistered, and the four
\* operations are called on a url of the name
NextUse ==
    \/ \E t \in Threads : \E src \in {"fs1", "ar1"} \ passed :
            LinBegin(t, MakeCall("register_scheme", 0, src, NoUrl))
    \/ \E t \in Threads : LinBegin(t, MakeCall("unregister_scheme", 0, NullSource, NoUrl))
    \/ \E t \in Threads : \E op \in SourceOps :
            LinBegin(t, MakeCall(op, NoName, NullSource, MakeUrl(0, FilePath)))
    \/ \E t \in Threads : LinLock(t)
    \/ \E t \in Threads : LinFind(t)
    \/ \E t \in Threads : LinApply(t)
    \/ \E t \in Threads : Release(t)
    \/ LinDestructor

SpecUse == Init /\ [][NextUse]_vars

\* thread t has looked a source up and its call on the source has not ended
OnSourceCall(t) ==
    pc[t] = "apply" /\ call[t].op \in SourceOps /\ ret[t].kind = "invoke"

\* the source a call runs on is alive and still the map's, the caller holds
\* the mutex, and no call on a source ever met a destroyed one
C32_CalledSourceAlive ==
    /\ \A t \in Threads :
        OnSourceCall(t) =>
            /\ mutex = t
            /\ destroyed[ret[t].source] = 0
            /\ ret[t].source \in Range(schemes)
    /\ \A k \in 1 .. Len(hist) : hist[k].result # "undefined"

\* while a call on a source lasts no step erases from the scheme map or
\* destroys a source, and no unregister_scheme gets past its lock_guard
C32_NoEraseInside ==
    \A t \in Threads :
        OnSourceCall(t) =>
            /\ schemes' = schemes
            /\ destroyed' = destroyed
            /\ \A u \in Threads :
                call[u].op = "unregister_scheme" /\ pc[u] = "wait" => pc'[u] = "wait"

\* C32: a file source is never destroyed while another thread is executing
\* exists, open, load or write on it: unregister_scheme cannot run between the
\* lookup of the source and the end of the call made on it.
C32_SourceOutlivesCall ==
    [] C32_CalledSourceAlive /\ [][C32_NoEraseInside]_vars

\* a load runs on the source of name 0 while another thread's
\* unregister_scheme of that name waits for the mutex
C32_Witness ==
    \E t, u \in Threads :
        /\ OnSourceCall(t) /\ call[t].op = "load"
        /\ pc[u] = "wait"
        /\ call[u] = MakeCall("unregister_scheme", 0, NullSource, NoUrl)

----------------------------------------------------------------------------
(* Dangling aliases (Spec) *)

\* url's scheme has an alias, its chain ends, and the scheme it ends at has no
\* source
Dangles(url) ==
    /\ url.scheme \in DOMAIN aliases
    /\ AliasEnd(url.scheme, MaxLevel) # NoName
    /\ AliasEnd(url.scheme, MaxLevel) \notin DOMAIN schemes

\* register_scheme_alias does not look at the scheme map, unregister_scheme
\* does not touch the alias map, and a call on a url that dangles returns the
\* operation's fallback
C33_DanglingStep ==
    \A t \in Threads :
        /\ Runs(t, "register_scheme_alias")
            => /\ schemes' = schemes
               /\ ret'[t] = Returned(BoolStr(call'[t].name \notin DOMAIN aliases))
               /\ call'[t].name \notin DOMAIN aliases
                    => aliases'[call'[t].name] = call'[t].url
        /\ Runs(t, "unregister_scheme") => aliases' = aliases
        /\ \A op \in FacadeOps :
            Runs(t, op) /\ Dangles(call'[t].url)
                => ret'[t] = Returned(fallback_result(op))

\* a call that is inside a source, has returned from one or has thrown is not
\* a call on a url that dangles
C33_DanglingSoftFails ==
    \A t \in Threads :
        /\ call[t].op \in FacadeOps /\ pc[t] \in {"io", "unlock"}
        /\ ret[t].kind # "value" \/ ret[t].source # NullSource
        => ~ Dangles(call[t].url)

\* C33: aliases may dangle: register_scheme_alias does not require the target
\* scheme to have a source, and unregister_scheme does not remove the aliases
\* that point at the scheme it removes; a url whose alias chain ends at a scheme
\* without a source soft-fails (exists false, open and write empty, load
\* (empty, false)) instead of raising an error.
C33_AliasesMayDangle ==
    [] C33_DanglingSoftFails /\ [][C33_DanglingStep]_vars

\* an alias to scheme 1 was registered while 1 had no source, and a load
\* through it has returned (empty buffer, false)
C33_Witness ==
    \E t \in Threads :
        /\ 0 \in DOMAIN aliases /\ aliases[0].scheme = 1
        /\ 1 \notin DOMAIN aliases
        /\ schemes = EmptyMap
        /\ call[t].op = "load" /\ call[t].url.scheme = 0
        /\ pc[t] = "unlock"
        /\ ret[t] = Returned("empty_buffer_false")

----------------------------------------------------------------------------
(* SpecExtend: an alias is registered at the end of a chain, then a url is   *)
(* resolved                                                                  *)

\* On SpecChain's registries a second caller registers an alias for the name
\* the chain ends at: to the name itself, back to scheme 0, or one hop on.
\* The call may come before, or after, the resolve_scheme_aliases call.
NextExtend ==
    \/ \E target \in {0, c_cfg.n, c_cfg.n + 1} :
            RegisterSchemeAlias("t2", c_cfg.n, MakeUrl(target, <<"base">>))
    \/ Release("t2")
    \/ NextChain

SpecExtend == InitChain /\ [][NextExtend]_vars

\* register_scheme_alias returns whether the name was free, and then stores the
\* url, whatever chain or cycle the new alias makes
C34_RegisterStep ==
    \A t \in Threads :
        Runs(t, "register_scheme_alias")
            => LET name == call'[t].name
               IN  /\ ret'[t] = Returned(BoolStr(name \notin DOMAIN aliases))
                   /\ name \notin DOMAIN aliases
                        => /\ DOMAIN aliases' = DOMAIN aliases \cup {name}
                           /\ aliases'[name] = call'[t].url
                           /\ \A x \in DOMAIN aliases : aliases'[x] = aliases[x]
                   /\ name \in DOMAIN aliases => aliases' = aliases

\* the resolution of a url is what finds the cycle or the over-long chain: it
\* throws exactly when the chain from the url's scheme does not end within the
\* depth bound
C34_DetectedOnResolve ==
    /\ c_pc = "throwing" => AliasEnd(c_in.scheme, MaxLevel) = NoName
    /\ c_pc = "returning" => AliasEnd(c_in.scheme, MaxLevel) = c_url.scheme

\* C34: register_scheme_alias never rejects an alias for forming a cycle or an
\* over-long chain: it returns true whenever the name has no alias yet,
\* including for an alias whose target scheme is the name itself; such
\* configurations are detected only later, when a url is resolved.
C34_AliasNeverRejected ==
    [] C34_DetectedOnResolve /\ [][C34_RegisterStep]_vars

\* the alias 0 -> 0:base was registered on an empty alias map and accepted, and
\* the resolution of a url of scheme 0 has thrown
C34_Witness ==
    /\ c_cfg = [n |-> 0, tail |-> "end"]
    /\ aliases = [x \in {0} |-> MakeUrl(0, <<"base">>)]
    /\ c_pc = "thrown"

\* the alias that makes a chain of 32 hops one of 33 was accepted, and the
\* resolution has thrown
C34_WitnessOverlong ==
    /\ c_cfg = [n |-> 32, tail |-> "end"]
    /\ 32 \in DOMAIN aliases /\ aliases[32].scheme = 33
    /\ c_pc = "thrown"

----------------------------------------------------------------------------
(* The reading operations' frame (Spec) *)

ReadOps == FacadeOps \cup {"resolve_scheme_aliases"}

\* thread t takes a step of a reading operation: it enters one, runs the
\* source's method, leaves the lock_guard's scope, or submits its task
ReadStep(t) ==
    /\ pc'[t] # pc[t]
    /\ call[t].op \in ReadOps \/ call'[t].op \in ReadOps

\* no step of a reading operation, by return or by exception, and no step of
\* the worker changes the scheme map or the alias map; from the lookup to the
\* return nobody else changes them either
C35_ReadOnlyStep ==
    /\ \A t \in Threads :
        /\ ReadStep(t) => aliases' = aliases /\ schemes' = schemes
        /\ mutex = t /\ call[t].op \in ReadOps
            => aliases' = aliases /\ schemes' = schemes
    /\ (queue' # queue \/ running' # running)
            => aliases' = aliases /\ schemes' = schemes

\* C35: resolve_scheme_aliases, exists, open, load, write and load_async never
\* modify the registry: after any of them returns (or fails), the scheme map
\* and the alias map contain exactly the entries they contained before the
\* call.
C35_ReadsLeaveRegistry ==
    [][C35_ReadOnlyStep]_vars

\* on a registry with a source and an alias, one thread's open has thrown and
\* the other thread is submitting the task of its load_async
C35_Witness ==
    \E t, u \in Threads :
        /\ Done(t, "open") /\ ret[t].kind = "throw"
        /\ pc[u] = "submit" /\ ret[u].val = "stream"
        /\ schemes # EmptyMap
        /\ aliases # EmptyMap

----------------------------------------------------------------------------
(* The scheme map's entries (Spec) *)

\* a source the facade may hand a call to
Usable(source) == source # NullSource /\ valid(source)

\* every entry of the scheme map is a usable source, no source object is held
\* under two names, and every source a call or a task got from the facade is
\* usable
C36_EntriesUsable ==
    /\ \A n \in DOMAIN schemes : Usable(schemes[n])
    /\ \A n, m \in DOMAIN schemes : schemes[n] = schemes[m] => n = m
    /\ \A t \in Threads :
        call[t].op \in FacadeOps /\ ret[t].source # NullSource => Usable(ret[t].source)
    /\ \A k \in 1 .. Len(queue) :
        queue[k].source # NullSource => Usable(queue[k].source)
    /\ running.source # NullSource => Usable(running.source)

\* a step never puts another source under a name that has one, and the source
\* a call is handed to is the one the map holds under the resolved name
C36_EntryStep ==
    /\ \A n \in DOMAIN schemes \cap DOMAIN schemes' : schemes'[n] = schemes[n]
    /\ \A t \in Threads : \A op \in FacadeOps :
        Runs(t, op) /\ ret'[t].kind = "invoke" => ret'[t].source \in Range(schemes)

\* C36: after any sequence of registry operations, every entry of the scheme
\* map holds a non-null source that reported valid() == true when it was
\* registered, and each scheme name maps to at most one source; an invalid or
\* null source is never reachable through the facade.
C36_OnlyValidSources ==
    [] C36_EntriesUsable /\ [][C36_EntryStep]_vars

\* both names hold a source, and the registration of an archive source whose
\* archive did not open has just been refused
C36_Witness ==
    \E t \in Threads :
        /\ DOMAIN schemes = SchemeNames
        /\ Done(t, "register_scheme")
        /\ call[t].source = "ar_bad"
        /\ ret[t] = Returned("false")

----------------------------------------------------------------------------
(* The depth counter (SpecChain) *)

\* the counter is within 0 .. 33; it is 33 when the check fails and at most 32
\* when the resolution returns, and it equals the number of recursive calls
\* made
C37_LevelInRange ==
    /\ c_level \in 0 .. MaxLevel + 1
    /\ c_pc \in {"throwing", "thrown"} => c_level = MaxLevel + 1
    /\ c_pc \in {"returning", "returned"} => c_level <= MaxLevel
    /\ c_pc = "running" => c_level = c_lookups
    /\ c_pc \in {"returning", "returned"} => c_level = c_lookups - 1

\* the counter changes by the recursive call only, from a value that passed
\* the check, to that value plus one: the sum fits the 8 bits
C37_LevelStep ==
    c_level' # c_level
        => /\ c_pc = "running"
           /\ c_level <= MaxLevel
           /\ c_level' = c_level + 1
           /\ c_level + 1 < U8Range

\* C37: the 8-bit recursion depth counter of resolve_url never wraps around:
\* for every alias configuration it only takes the values 0..33, and the bound
\* check (level > 32) is reached before any increment could overflow modulo
\* 256.
C37_LevelNeverWraps ==
    [] C37_LevelInRange /\ [][C37_LevelStep]_vars

\* on a scheme aliased to itself the counter has reached 33 and the check has
\* stopped the recursion
C37_Witness ==
    /\ c_cfg = [n |-> 0, tail |-> "self"]
    /\ c_pc = "throwing"
    /\ c_level = MaxLevel + 1
    /\ c_lookups = MaxLevel + 1

====
